---- MODULE Spec2Model ----
(***************************************************************************)
(* Model of the epd-waveshare-async e-paper drivers: the send primitive    *)
(* with its busy gate, the type-state sessions of the 2.9" v1 and v2       *)
(* panels, and the byte-packed BinaryBuffer.                               *)
(***************************************************************************)
EXTENDS Integers, Sequences, FiniteSets, TLC

\* ------------------------------------------------------------------------
\* Pin levels (embedded_hal::digital::PinState)
High == "High"
Low == "Low"
Levels == {High, Low}

\* epd2in9_v2.rs:181-182: the level of the busy pin that means "busy".
DEFAULT_BUSY_WHEN == High

\* ------------------------------------------------------------------------
\* Command registers: epd2in9.rs Command (87-151), epd2in9_v2.rs Command
\* (189-292). Names shared by both panels have the same register.
DriverOutputControl == 1
SetGateDrivingVoltage == 3
SetSourceDrivingVoltage == 4
BoosterSoftStartControl == 12
DeepSleepMode == 16
DataEntryModeSetting == 17
SwReset == 18
MasterActivation == 32
DisplayUpdateControl1 == 33
DisplayUpdateControl2 == 34
WriteRam == 36
WriteOldRam == 38
WriteLowRam == 36
WriteHighRam == 38
WriteVcom == 44
WriteLut == 50
SetDummyLinePeriod == 58
SetGateLineWidth == 59
BorderWaveformControl == 60
SetBorderWaveform == 60
SetLutMagic == 63
SetRamXStartEnd == 68
SetRamYStartEnd == 69
SetRamX == 78
SetRamY == 79
Noop == 255

\* ------------------------------------------------------------------------
\* Per-mode parameter tables, byte for byte as in the source.
\* epd2in9.rs:20-23
LUT_FULL_UPDATE ==
    << 80, 170, 85, 170, 17, 0, 0, 0, 0, 0, 0, 0, 0, 0, 0, 0, 0, 0, 0, 0, 255, 255, 31, 0,
       0, 0, 0, 0, 0, 0 >>

\* epd2in9.rs:28-31
LUT_PARTIAL_UPDATE ==
    << 16, 24, 24, 8, 24, 24, 8, 0, 0, 0, 0, 0, 0, 0, 0, 0, 0, 0, 0, 0, 19, 20, 68, 18, 0,
       0, 0, 0, 0, 0 >>

\* epd2in9.rs:177-177
DRIVER_OUTPUT_INIT_DATA ==
    << 39, 1, 0 >>

\* epd2in9.rs:180-180
BOOSTER_SOFT_START_INIT_DATA ==
    << 215, 214, 157 >>

\* epd2in9_v2.rs:24-35
V2_LUT_FULL_UPDATE ==
    << 144, 0, 0, 0, 0, 0, 0, 0, 0, 0, 0, 0, 96, 0, 0, 0, 0, 0, 0, 0, 0, 0, 0, 0, 144, 0,
       0, 0, 0, 0, 0, 0, 0, 0, 0, 0, 96, 0, 0, 0, 0, 0, 0, 0, 0, 0, 0, 0, 0, 0, 0, 0, 0,
       0, 0, 0, 0, 0, 0, 0, 25, 25, 0, 0, 0, 0, 0, 0, 0, 0, 0, 0, 0, 0, 0, 0, 0, 0, 0, 0,
       0, 0, 0, 0, 0, 0, 0, 0, 0, 0, 0, 0, 0, 0, 0, 0, 0, 0, 0, 0, 0, 0, 0, 0, 0, 0, 0, 0,
       0, 0, 0, 0, 0, 0, 0, 0, 0, 0, 0, 0, 0, 0, 0, 0, 0, 0, 0, 0, 0, 0, 0, 0, 0, 0, 0, 0,
       0, 0, 0, 0, 0, 0, 0, 0, 36, 66, 34, 34, 35, 50, 0, 0, 0 >>

\* epd2in9_v2.rs:36-36
V2_LUT_MAGIC_FULL_UPDATE ==
    << 34 >>

\* epd2in9_v2.rs:37-37
V2_GATE_VOLTAGE_FULL_UPDATE ==
    << 23 >>

\* epd2in9_v2.rs:38-38
V2_SOURCE_VOLTAGE_FULL_UPDATE ==
    << 65, 174, 50 >>

\* epd2in9_v2.rs:39-39
V2_VCOM_FULL_UPDATE ==
    << 56 >>

\* epd2in9_v2.rs:44-54
V2_LUT_PARTIAL_UPDATE ==
    << 0, 64, 0, 0, 0, 0, 0, 0, 0, 0, 0, 0, 128, 128, 0, 0, 0, 0, 0, 0, 0, 0, 0, 0, 64,
       64, 0, 0, 0, 0, 0, 0, 0, 0, 0, 0, 0, 128, 0, 0, 0, 0, 0, 0, 0, 0, 0, 0, 0, 0, 0, 0,
       0, 0, 0, 0, 0, 0, 0, 0, 10, 0, 0, 0, 0, 0, 1, 1, 0, 0, 0, 0, 0, 0, 1, 0, 0, 0, 0,
       0, 0, 0, 0, 0, 0, 0, 0, 0, 0, 0, 0, 0, 0, 0, 0, 0, 0, 0, 0, 0, 0, 0, 0, 0, 0, 0, 0,
       0, 0, 0, 0, 0, 0, 0, 0, 0, 0, 0, 0, 0, 0, 0, 0, 0, 0, 0, 0, 0, 0, 0, 0, 0, 0, 0, 0,
       0, 0, 0, 0, 0, 0, 0, 0, 0, 34, 34, 34, 34, 34, 34, 0, 0, 0 >>

\* epd2in9_v2.rs:55-55
V2_LUT_MAGIC_PARTIAL_UPDATE ==
    << 34 >>

\* epd2in9_v2.rs:56-56
V2_GATE_VOLTAGE_PARTIAL_UPDATE ==
    << 23 >>

\* epd2in9_v2.rs:57-57
V2_SOURCE_VOLTAGE_PARTIAL_UPDATE ==
    << 65, 176, 50 >>

\* epd2in9_v2.rs:58-58
V2_VCOM_PARTIAL_UPDATE ==
    << 54 >>

\* epd2in9_v2.rs:59-70
V2_LUT_GRAY2 ==
    << 0, 96, 0, 0, 0, 0, 0, 0, 0, 0, 0, 0, 32, 96, 16, 0, 0, 0, 0, 0, 0, 0, 0, 0, 40, 96,
       20, 0, 0, 0, 0, 0, 0, 0, 0, 0, 42, 96, 21, 0, 0, 0, 0, 0, 0, 0, 0, 0, 0, 144, 0, 0,
       0, 0, 0, 0, 0, 0, 0, 0, 0, 2, 0, 5, 20, 0, 0, 30, 30, 0, 0, 0, 0, 1, 0, 2, 0, 5,
       20, 0, 0, 0, 0, 0, 0, 0, 0, 0, 0, 0, 0, 0, 0, 0, 0, 0, 0, 0, 0, 0, 0, 0, 0, 0, 0,
       0, 0, 0, 0, 0, 0, 0, 0, 0, 0, 0, 0, 0, 0, 0, 0, 0, 0, 0, 0, 0, 0, 0, 0, 0, 0, 0, 0,
       0, 0, 0, 0, 0, 0, 0, 0, 0, 0, 0, 36, 34, 34, 34, 35, 50, 0, 0, 0 >>

\* epd2in9_v2.rs:71-71
V2_LUT_MAGIC_GRAY2 ==
    << 34 >>

\* epd2in9_v2.rs:72-72
V2_GATE_VOLTAGE_GRAY2 ==
    << 23 >>

\* epd2in9_v2.rs:73-73
V2_SOURCE_VOLTAGE_GRAY2 ==
    << 65, 174, 50 >>

\* epd2in9_v2.rs:74-74
V2_VCOM_GRAY2 ==
    << 40 >>

\* epd2in9_v2.rs:322-322
V2_DRIVER_OUTPUT_INIT_DATA ==
    << 39, 1, 0 >>


\* ------------------------------------------------------------------------
\* Refresh modes (epd2in9.rs RefreshMode 36-54, epd2in9_v2.rs 79-96) and
\* their parameter lookups.
Drivers == {"Epd2In9", "Epd2In9V2"}

RefreshModes(d) ==
    IF d = "Epd2In9"
    THEN {"Full", "Partial", "PartialBlackBypass", "PartialWhiteBypass"}
    ELSE IF d = "Epd7In5v2" THEN {"Full", "Partial", "Fast"}
    ELSE {"Full", "Partial", "Gray2"}

\* epd2in9.rs RefreshMode::lut
lut(mode) ==
    IF mode = "Full" THEN LUT_FULL_UPDATE ELSE LUT_PARTIAL_UPDATE

\* epd2in9_v2.rs RefreshMode::border_waveform
v2_border_waveform(mode) ==
    CASE mode = "Full" -> <<5>>
      [] mode = "Partial" -> <<128>>
      [] mode = "Gray2" -> <<4>>

\* epd2in9_v2.rs RefreshMode::lut
v2_lut(mode) ==
    CASE mode = "Full" -> V2_LUT_FULL_UPDATE
      [] mode = "Partial" -> V2_LUT_PARTIAL_UPDATE
      [] mode = "Gray2" -> V2_LUT_GRAY2

\* epd2in9_v2.rs RefreshMode::lut_magic
v2_lut_magic(mode) ==
    CASE mode = "Full" -> V2_LUT_MAGIC_FULL_UPDATE
      [] mode = "Partial" -> V2_LUT_MAGIC_PARTIAL_UPDATE
      [] mode = "Gray2" -> V2_LUT_MAGIC_GRAY2

\* epd2in9_v2.rs RefreshMode::gate_voltage
v2_gate_voltage(mode) ==
    CASE mode = "Full" -> V2_GATE_VOLTAGE_FULL_UPDATE
      [] mode = "Partial" -> V2_GATE_VOLTAGE_PARTIAL_UPDATE
      [] mode = "Gray2" -> V2_GATE_VOLTAGE_GRAY2

\* epd2in9_v2.rs RefreshMode::source_voltage
v2_source_voltage(mode) ==
    CASE mode = "Full" -> V2_SOURCE_VOLTAGE_FULL_UPDATE
      [] mode = "Partial" -> V2_SOURCE_VOLTAGE_PARTIAL_UPDATE
      [] mode = "Gray2" -> V2_SOURCE_VOLTAGE_GRAY2

\* epd2in9_v2.rs RefreshMode::vcom
v2_vcom(mode) ==
    CASE mode = "Full" -> V2_VCOM_FULL_UPDATE
      [] mode = "Partial" -> V2_VCOM_PARTIAL_UPDATE
      [] mode = "Gray2" -> V2_VCOM_GRAY2

\* epd2in9_v2.rs RefreshMode::display_update_control_2
v2_display_update_control_2(mode) ==
    IF mode = "Partial" THEN <<207>> ELSE <<199>>

\* epd2in9_v2.rs RefreshMode::is_black_and_white
is_black_and_white(mode) == mode # "Gray2"

\* The mutant of split_low_and_high: the two bytes come out in the other
\* order.
split_low_and_high_swapped(value) ==
    << (value \div 256) % 256, value % 256 >>

\* buffer.rs split_low_and_high: the low and high byte of a u16.
split_low_and_high(value) ==
    << value % 256, (value \div 256) % 256 >>

\* `as u16` of an i32.
AsU16(v) == v % 65536

\* `as u8` of an i32.
AsU8(v) == v % 256

\* ------------------------------------------------------------------------
\* Inputs of the operations: windows, cursor positions and buffer views.
Rect(x, y, w, h) == [x |-> x, y |-> y, w |-> w, h |-> h]
Pt(x, y) == [x |-> x, y |-> y]
NoRect == Rect(0, 0, 0, 0)
NoBuf == [window |-> NoRect, frames |-> <<>>]

\* The panel is 128 x 296 (epd2in9.rs DISPLAY_WIDTH / DISPLAY_HEIGHT).
DISPLAY_WIDTH == 128
DISPLAY_HEIGHT == 296

Shapes ==
    { Rect(0, 0, 8, 2), Rect(8, 1, 16, 2), Rect(0, 0, DISPLAY_WIDTH, DISPLAY_HEIGHT) }

Positions == { Pt(0, 0), Pt(8, 295) }

\* BufferView<1, 1>: one frame; BufferView<1, 2>: a low and a high frame.
BinaryViews ==
    { [window |-> Rect(0, 0, 8, 2), frames |-> << <<129, 126>> >>] }

Gray2Views ==
    { [window |-> Rect(0, 0, 8, 2), frames |-> << <<240, 15>>, <<204, 51>> >>] }

\* ------------------------------------------------------------------------
\* An operation is a straight-line program over the hardware: reset-pin
\* writes, delays and sends.  Every `?` ends the program at the first error.
Ins(k, lvl, ms, cmd, data) ==
    [k |-> k, lvl |-> lvl, ms |-> ms, cmd |-> cmd, data |-> data]
SendI(cmd, data) == Ins("send", "-", 0, cmd, data)
RstI(lvl) == Ins("rst", lvl, 0, 0, <<>>)
DelayI(ms) == Ins("delay", "-", ms, 0, <<>>)

\* epd2in9.rs / epd2in9_v2.rs reset_impl
reset_impl ==
    << RstI(Low), DelayI(10), RstI(High), DelayI(10) >>

\* epd2in9.rs Epd2In9::set_refresh_mode_impl
set_refresh_mode_impl(mode) ==
    << SendI(WriteLut, lut(mode)) >> \o
    ( CASE mode = "Partial" -> << SendI(DisplayUpdateControl1, <<0>>) >>
        [] mode = "PartialBlackBypass" -> << SendI(DisplayUpdateControl1, <<144>>) >>
        [] mode = "PartialWhiteBypass" -> << SendI(DisplayUpdateControl1, <<128>>) >>
        [] OTHER -> << >> )

\* The mutant of init_prog: the software reset goes out before the reset
\* pin is pulsed.
init_prog_reset_late(mode) ==
    << SendI(SwReset, <<>>) >> \o
    reset_impl \o
    << SendI(DriverOutputControl, DRIVER_OUTPUT_INIT_DATA),
       SendI(BoosterSoftStartControl, BOOSTER_SOFT_START_INIT_DATA),
       SendI(DataEntryModeSetting, <<3>>),
       SendI(WriteVcom, <<168>>),
       SendI(SetDummyLinePeriod, <<26>>),
       SendI(SetGateLineWidth, <<8>>) >> \o
    set_refresh_mode_impl(mode)

\* epd2in9.rs Epd2In9::init
init_prog(mode) ==
    reset_impl \o
    << SendI(SwReset, <<>>),
       SendI(DriverOutputControl, DRIVER_OUTPUT_INIT_DATA),
       SendI(BoosterSoftStartControl, BOOSTER_SOFT_START_INIT_DATA),
       SendI(DataEntryModeSetting, <<3>>),
       SendI(WriteVcom, <<168>>),
       SendI(SetDummyLinePeriod, <<26>>),
       SendI(SetGateLineWidth, <<8>>) >> \o
    set_refresh_mode_impl(mode)

\* Epd2In9::send, Epd2In9V2::send, Epd7In5v2::send (epd2in9.rs 325-332,
\* epd2in9_v2.rs 435-442, epd7in5_v2.rs 444-451): the register of the command
\* and the data go to the adapter's send.
send_prog(command, data) == << SendI(command, data) >>

\* epd2in9_v2.rs Bypass (389-396) as u8
bypass_as_u8(b) ==
    CASE b = "Normal" -> 0
      [] b = "AllZero" -> 4
      [] b = "Inverted" -> 8

\* epd2in9_v2.rs Epd2In9V2::set_ram_bypass (531-549):
\* ((high_bypass as u8) << 4) | (low_bypass as u8); the two operands share
\* no bit, so the sum is the bitwise or.
v2_set_ram_bypass_prog(mode, low_bypass, high_bypass) ==
    << SendI(DisplayUpdateControl1,
             << ((bypass_as_u8(high_bypass) * 16) % 256) + bypass_as_u8(low_bypass),
                IF is_black_and_white(mode) THEN 128 ELSE 0 >>) >>

\* epd2in9.rs Epd2In9::set_border (BinaryColor::Off -> 0x00, On -> 0x01)
set_border_prog(color) ==
    << SendI(BorderWaveformControl, << IF color = "On" THEN 1 ELSE 0 >>) >>

\* epd2in9.rs Epd2In9::set_window
set_window_prog(shape) ==
    LET x_start == shape.x
        x_end == x_start + shape.w - 1
        ys == split_low_and_high(AsU16(shape.y))
        ye == split_low_and_high(AsU16(shape.y + shape.h - 1))
    IN  << SendI(SetRamXStartEnd, << (x_start \div 8) % 256, (x_end \div 8) % 256 >>),
           SendI(SetRamYStartEnd, << ys[1], ys[2], ye[1], ye[2] >>) >>

\* epd2in9.rs Epd2In9::set_cursor
set_cursor_prog(position) ==
    LET yp == split_low_and_high(AsU16(position.y))
    IN  << SendI(SetRamX, << AsU8(position.x \div 8) >>),
           SendI(SetRamY, << yp[1], yp[2] >>) >>

\* The mutant of update_display_prog: the activation is left out.
update_display_prog_no_activation ==
    << SendI(DisplayUpdateControl2, <<196>>),
       SendI(Noop, <<>>) >>

\* epd2in9.rs Displayable::update_display
update_display_prog ==
    << SendI(DisplayUpdateControl2, <<196>>),
       SendI(MasterActivation, <<>>),
       SendI(Noop, <<>>) >>

\* The mutant of write_framebuffer_prog: the frame goes to the old RAM.
write_framebuffer_prog_old_ram(buf) ==
    set_window_prog(buf.window) \o
    set_cursor_prog(Pt(buf.window.x, buf.window.y)) \o
    << SendI(WriteOldRam, buf.frames[1]) >>

\* epd2in9.rs DisplaySimple::write_framebuffer
write_framebuffer_prog(buf) ==
    set_window_prog(buf.window) \o
    set_cursor_prog(Pt(buf.window.x, buf.window.y)) \o
    << SendI(WriteRam, buf.frames[1]) >>

\* epd2in9.rs DisplayPartial::write_base_framebuffer
write_base_framebuffer_prog(buf) ==
    set_window_prog(buf.window) \o
    set_cursor_prog(Pt(buf.window.x, buf.window.y)) \o
    << SendI(WriteOldRam, buf.frames[1]) >>

\* epd2in9.rs Sleep::sleep (the same in epd2in9_v2.rs)
sleep_prog ==
    << SendI(DeepSleepMode, <<1>>) >>

\* epd2in9_v2.rs Epd2In9V2::set_refresh_mode_impl
v2_set_refresh_mode_impl(mode) ==
    << SendI(SwReset, <<>>),
       SendI(DriverOutputControl, V2_DRIVER_OUTPUT_INIT_DATA),
       SendI(DataEntryModeSetting, <<3>>),
       SendI(DisplayUpdateControl1, << 0, IF is_black_and_white(mode) THEN 128 ELSE 0 >>),
       SendI(SetBorderWaveform, v2_border_waveform(mode)),
       SendI(WriteLut, v2_lut(mode)),
       SendI(SetLutMagic, v2_lut_magic(mode)),
       SendI(SetGateDrivingVoltage, v2_gate_voltage(mode)),
       SendI(SetSourceDrivingVoltage, v2_source_voltage(mode)),
       SendI(WriteVcom, v2_vcom(mode)) >> \o
    ( IF mode = "Partial"
      THEN << SendI(55, << 0, 0, 0, 0, 0, 64, 0, 0, 0, 0 >>),
              SendI(DisplayUpdateControl2, <<195>>),
              SendI(MasterActivation, <<>>) >>
      ELSE << >> )

\* epd2in9_v2.rs Epd2In9V2::init
v2_init_prog(mode) ==
    reset_impl \o v2_set_refresh_mode_impl(mode)

\* epd2in9_v2.rs Epd2In9V2::set_window (the session's mode shifts x in Gray2)
v2_set_window_prog(mode, shape) ==
    LET x_start == IF mode = "Gray2" THEN shape.x + 8 ELSE shape.x
        x_end == IF mode = "Gray2" THEN shape.x + shape.w + 7
                 ELSE shape.x + shape.w - 1
        ys == split_low_and_high(AsU16(shape.y))
        ye == split_low_and_high(AsU16(shape.y + shape.h - 1))
    IN  << SendI(SetRamXStartEnd, << (x_start \div 8) % 256, (x_end \div 8) % 256 >>),
           SendI(SetRamYStartEnd, << ys[1], ys[2], ye[1], ye[2] >>) >>

\* epd2in9_v2.rs Epd2In9V2::set_cursor
v2_set_cursor_prog(mode, position) ==
    LET x_pos == IF mode = "Gray2" THEN position.x + 8 ELSE position.x
        yp == split_low_and_high(AsU16(position.y))
    IN  << SendI(SetRamX, << AsU8(x_pos \div 8) >>),
           SendI(SetRamY, << yp[1], yp[2] >>) >>

\* epd2in9_v2.rs Displayable::update_display
v2_update_display_prog(mode) ==
    << SendI(DisplayUpdateControl2, v2_display_update_control_2(mode)),
       SendI(MasterActivation, <<>>) >>

\* The mutant of v2_write_framebuffer_prog: a two-frame view has only its low
\* frame written.
v2_write_framebuffer_prog_low_only(mode, buf) ==
    v2_set_window_prog(mode, buf.window) \o
    v2_set_cursor_prog(mode, Pt(buf.window.x, buf.window.y)) \o
    << SendI(WriteLowRam, buf.frames[1]) >>

\* epd2in9_v2.rs DisplaySimple<1, 1>::write_framebuffer and
\* DisplaySimple<1, 2>::write_framebuffer (chosen by the view's frame count)
v2_write_framebuffer_prog(mode, buf) ==
    v2_set_window_prog(mode, buf.window) \o
    v2_set_cursor_prog(mode, Pt(buf.window.x, buf.window.y)) \o
    ( IF Len(buf.frames) = 1
      THEN << SendI(WriteLowRam, buf.frames[1]) >>
      ELSE << SendI(WriteLowRam, buf.frames[1]),
              SendI(WriteHighRam, buf.frames[2]) >> )

\* epd2in9_v2.rs DisplayPartial::write_base_framebuffer
v2_write_base_framebuffer_prog(mode, buf) ==
    v2_set_window_prog(mode, buf.window) \o
    v2_set_cursor_prog(mode, Pt(buf.window.x, buf.window.y)) \o
    << SendI(WriteHighRam, buf.frames[1]) >>

\* ------------------------------------------------------------------------
\* The 7.5" v2 panel (epd7in5_v2.rs).
\* Command registers: epd7in5_v2.rs Command (124-226).
PanelSetting == 0
PowerSetting == 1
PowerOff == 2
PowerOn == 4
BoosterSoftStart == 6
DeepSleep == 7
DisplayRefresh == 18
DualSpi == 21
PllControl == 48
VcomAndDataIntervalSetting == 80
TconSetting == 96
TconResolution == 97
CascadeSetting == 224
ForceTemperature == 229

\* epd7in5_v2.rs:267
VCOM_INTERVAL_10 == 7

\* epd7in5_v2.rs DataFlags::BorderWhite (251); PosPol (257) has no bit.
BorderWhite == 16

\* An explicit call of wait_if_busy outside send, and a write of the power
\* pin (power_on_impl / power_off_impl).
WaitI == Ins("wait", "-", 0, 0, <<>>)
PowerI(lvl) == Ins("power", lvl, 0, 0, <<>>)

\* An assignment to self.state.data_settings of a 7.5" session.
DataSettingsI(bits) == Ins("data_settings", "-", 0, 0, << bits >>)

\* epd7in5_v2.rs reset_impl (380-389)
e75_reset_impl ==
    << RstI(High), DelayI(10), RstI(Low), DelayI(2), RstI(High), DelayI(200) >>

\* epd7in5_v2.rs Epd7In5v2::init_full (485-513)
init_full ==
    << SendI(PowerOn, <<>>),
       DelayI(100),
       WaitI,
       SendI(BoosterSoftStart, <<23, 23, 40, 23>>),
       SendI(PowerSetting, <<7, 7, 58, 58, 3>>),
       SendI(PanelSetting, <<31>>),
       SendI(PllControl, <<6>>),
       SendI(TconResolution, <<3, 32, 1, 224>>),
       SendI(DualSpi, <<0>>),
       DataSettingsI(BorderWhite),
       SendI(VcomAndDataIntervalSetting, <<BorderWhite, VCOM_INTERVAL_10>>),
       SendI(TconSetting, <<34>>),
       WaitI >>

\* epd7in5_v2.rs Epd7In5v2::init_part (514-524)
init_part ==
    << SendI(PanelSetting, <<31>>),
       SendI(PowerOn, <<>>),
       DelayI(100),
       SendI(CascadeSetting, <<2>>),
       SendI(ForceTemperature, <<110>>) >>

\* epd7in5_v2.rs Epd7In5v2::init_fast (526-547)
init_fast ==
    << SendI(PanelSetting, <<31>>),
       DataSettingsI(BorderWhite),
       SendI(VcomAndDataIntervalSetting, <<BorderWhite, VCOM_INTERVAL_10>>),
       SendI(PowerOn, <<>>),
       DelayI(100),
       SendI(BoosterSoftStart, <<39, 39, 24, 23>>),
       SendI(CascadeSetting, <<2>>),
       SendI(ForceTemperature, <<90>>) >>

\* epd7in5_v2.rs Epd7In5v2::set_refresh_mode_impl (470-483)
e75_set_refresh_mode_impl(mode) ==
    e75_reset_impl \o
    ( CASE mode = "Partial" -> init_part
        [] mode = "Fast" -> init_fast
        [] OTHER -> init_full )

\* epd7in5_v2.rs Epd7In5v2::init (422-441): the Ready state is built with
\* empty data_settings after the first reset.
e75_init_prog(mode) ==
    e75_reset_impl \o << DataSettingsI(0) >> \o e75_set_refresh_mode_impl(mode)

\* epd7in5_v2.rs Epd7In5v2::update_display (606-615)
e75_update_display_prog ==
    << SendI(DisplayRefresh, <<>>), DelayI(100), WaitI >>

\* epd7in5_v2.rs Sleep::sleep (580-593)
e75_sleep_prog ==
    << SendI(PowerOff, <<>>), SendI(DeepSleep, <<165>>) >>

\* ------------------------------------------------------------------------
\* The 7.5" v2 partial-area display (epd7in5_v2.rs 653-747).
DataStartTransmission2 == 19
SetPartialWindow == 144
EnterPartialMode == 145
ExitPartialMode == 146

\* epd7in5_v2.rs DataFlags (245-262)
EnableBorderHiZ == 128
BorderBlack == 32
NewToOldCopy == 8

\* epd7in5_v2.rs DISPLAY_WIDTH / DISPLAY_HEIGHT (99-101)
E75_DISPLAY_WIDTH == 800
E75_DISPLAY_HEIGHT == 480

\* A panic (todo!, unwrap on None, a slice index out of range), a write of
\* the data/command pin outside send, and a bus write outside send.
PanicI == Ins("panic", "-", 0, 0, <<>>)
DcI(lvl) == Ins("dc", lvl, 0, 0, <<>>)
SpiI(data) == Ins("spi", "-", 0, 0, data)

\* embedded-graphics Rectangle::bottom_right: None for a zero-size rectangle.
bottom_right_is_some(area) == area.w > 0 /\ area.h > 0

\* epd7in5_v2.rs round_down_8_multiple (739-742)
round_down_8_multiple(x) == (x \div 8) * 8

\* epd7in5_v2.rs round_up_8_multiple (744-747): (x + 7) & !7 on u16.  With
\* overflow checks (the debug build) the addition panics when it leaves u16,
\* without them it wraps.
round_up_8_multiple(x, overflow_checks) ==
    [value |-> (((x + 7) % 65536) \div 8) * 8,
     panic |-> overflow_checks /\ x + 7 > 65535]

\* u16::to_be_bytes
to_be_bytes(v) == << v \div 256, v % 256 >>

\* The window display_partial_framebuffer derives from an area that has a
\* bottom-right corner (680-697).
e75_partial_window(area, overflow_checks) ==
    LET min_x == round_down_8_multiple(AsU16(area.x))
        up == round_up_8_multiple(AsU16(area.x + area.w - 1), overflow_checks)
        max_x == up.value
        \* max_x - min_x on u16: a panic with overflow checks, a wrap without
        row_length == (max_x - min_x) % 65536
    IN  [panic |-> up.panic \/ (overflow_checks /\ max_x < min_x),
         min_x |-> min_x, max_x |-> max_x,
         min_y |-> AsU16(area.y), max_y |-> AsU16(area.y + area.h - 1),
         row_num_bytes |-> row_length \div 8]

\* The payload of SetPartialWindow (699-715).
e75_partial_window_bytes(w) ==
    to_be_bytes(w.min_x) \o to_be_bytes(w.max_x) \o
    to_be_bytes(w.min_y) \o to_be_bytes(w.max_y) \o << 1 >>

\* The inclusive index range full_data[start_index ..= stop_index] of row j
\* (726-728).  j * width + min_x is computed in u32: with overflow checks a
\* result that leaves u32 panics, without them it wraps.  The u32 is kept
\* as hi * 2^16 + lo so that no intermediate value leaves the integers of
\* the checker: width = wh * 2^16 + wl and j = jh * 2^8 + jl.
e75_row_slice(width, w, j, overflow_checks) ==
    LET wl == width % 65536
        wh == width \div 65536
        a == (j \div 256) * wl
        b == (j % 256) * wl
        lo == (a % 256) * 256 + b + w.min_x
        hi == (a \div 256) + (lo \div 65536) + j * wh
        start_index == (hi % 65536) * 8192 + (lo % 65536) \div 8
    IN  [panic |-> overflow_checks /\ hi >= 65536,
         start_index |-> start_index,
         stop_index |-> start_index + w.row_num_bytes]

\* What display_partial_framebuffer computes from a buffer of the given
\* width and length and an area: whether it panics (no bottom-right corner,
\* integer arithmetic that overflows in a build with overflow checks, or a
\* row slice that ends outside the buffer), the window it programs and the
\* row slices << start_index, stop_index >> it reads before that.
e75_partial_plan(width, len, area, overflow_checks) ==
    IF ~bottom_right_is_some(area)
    THEN [window |-> << >>, panic |-> TRUE, rows |-> << >>]
    ELSE IF e75_partial_window(area, overflow_checks).panic
    THEN [window |-> << >>, panic |-> TRUE, rows |-> << >>]
    ELSE LET w == e75_partial_window(area, overflow_checks)
             n == w.max_y - w.min_y + 1
             all == [k \in 1 .. n |->
                        e75_row_slice(width, w, w.min_y + k - 1, overflow_checks)]
             bad == { k \in 1 .. n : all[k].panic \/ all[k].stop_index >= len }
             good == IF bad = {} THEN n
                     ELSE (CHOOSE k \in bad : \A m \in bad : k <= m) - 1
         IN  [window |-> e75_partial_window_bytes(w),
              panic |-> bad # {},
              rows |-> [k \in 1 .. good |->
                           << all[k].start_index, all[k].stop_index >>]]

\* epd7in5_v2.rs DisplayPartialArea::display_partial_framebuffer (656-736)
e75_display_partial_prog(mode, buf, area, overflow_checks) ==
    IF mode # "Partial" THEN << PanicI >>
    ELSE
    LET full_data == buf.frames[1]
        plan == e75_partial_plan(buf.window.w, Len(full_data), area,
                                overflow_checks)
    IN  << WaitI,
           DataSettingsI(EnableBorderHiZ + BorderBlack + NewToOldCopy),
           SendI(VcomAndDataIntervalSetting,
                 << EnableBorderHiZ + BorderBlack + NewToOldCopy, VCOM_INTERVAL_10 >>),
           SendI(EnterPartialMode, <<>>) >> \o
        ( IF plan.window = << >> THEN << PanicI >>
          ELSE << SendI(SetPartialWindow, plan.window),
                  DcI(Low),
                  SpiI(<< DataStartTransmission2 >>),
                  DcI(High) >> \o
               [k \in 1 .. Len(plan.rows) |->
                    SpiI(SubSeq(full_data, plan.rows[k][1] + 1, plan.rows[k][2] + 1))] \o
               ( IF plan.panic THEN << PanicI >>
                 ELSE e75_update_display_prog \o
                      << SendI(ExitPartialMode, <<>>) >> ) )

\* epd7in5_v2.rs Command::DataStartTransmission1 (160)
DataStartTransmission1 == 16

\* bitflags `flags &= !flag` and `flags |= flag`, for a flag of one bit.
flags_remove(bits, flag) ==
    IF (bits \div flag) % 2 = 1 THEN bits - flag ELSE bits
flags_insert(bits, flag) ==
    IF (bits \div flag) % 2 = 1 THEN bits ELSE bits + flag

\* epd7in5_v2.rs Epd7In5v2::set_border (551-572): data_settings is changed
\* before the send.
e75_set_border_prog(color, data_settings) ==
    LET bits == IF color = "Off"
                THEN flags_insert(flags_remove(data_settings, BorderBlack),
                                  BorderWhite)
                ELSE flags_insert(flags_remove(data_settings, BorderWhite),
                                  BorderBlack)
    IN  << DataSettingsI(bits),
           SendI(VcomAndDataIntervalSetting, << bits, VCOM_INTERVAL_10 >>) >>

\* epd7in5_v2.rs DisplaySimple::write_framebuffer (621-628)
e75_write_framebuffer_prog(buf) ==
    << SendI(DataStartTransmission2, buf.frames[1]) >>

\* epd7in5_v2.rs DisplayPartial::write_base_framebuffer (643-650)
e75_write_base_framebuffer_prog(buf) ==
    << SendI(DataStartTransmission1, buf.frames[1]) >>
\* ------------------------------------------------------------------------
\* set_window and set_cursor with their alignment assertions, in a build
\* with or without debug assertions (log.rs 31-44).

\* The remainder of Rust's `%` on i32: it has the sign of the dividend.
RustRem(a, b) == IF a >= 0 THEN a % b ELSE 0 - ((0 - a) % b)

\* The mutant of set_window_asserts: only the left edge is checked.
set_window_asserts_start_only(x_start, x_end) ==
    RustRem(x_start, 8) = 0

\* epd2in9.rs:363-366, epd2in9_v2.rs:574-577: the condition of debug_assert!
set_window_asserts(x_start, x_end) ==
    RustRem(x_start, 8) = 0 /\ RustRem(x_end, 8) = 7

\* epd2in9.rs:398, epd2in9_v2.rs:606: the condition of debug_assert_eq!
set_cursor_asserts(position) ==
    RustRem(position.x, 8) = 0

\* Epd2In9::set_window / Epd2In9V2::set_window called on a session of driver
\* d in mode `mode`: the assertion panics before the first send, or the
\* window is sent.
set_window_in(d, mode, shape, debug_assertions) ==
    LET shift == d = "Epd2In9V2" /\ mode = "Gray2"
        x_start == IF shift THEN shape.x + 8 ELSE shape.x
        x_end == IF shift THEN shape.x + shape.w + 7 ELSE shape.x + shape.w - 1
    IN  IF debug_assertions /\ ~set_window_asserts(x_start, x_end)
        THEN << PanicI >>
        ELSE IF d = "Epd2In9" THEN set_window_prog(shape)
        ELSE v2_set_window_prog(mode, shape)

\* Epd2In9::set_cursor / Epd2In9V2::set_cursor
set_cursor_in(d, mode, position, debug_assertions) ==
    IF debug_assertions /\ ~set_cursor_asserts(position)
    THEN << PanicI >>
    ELSE IF d = "Epd2In9" THEN set_cursor_prog(position)
    ELSE v2_set_cursor_prog(mode, position)


\* ------------------------------------------------------------------------
\* BinaryBuffer (buffer.rs 23-266): one bit per pixel, eight pixels a byte.

\* u8 bit operations.
BitAt(v, k) == (v \div (2 ^ k)) % 2

RECURSIVE OrFrom(_, _, _)
OrFrom(a, b, k) ==
    IF k > 7 THEN 0
    ELSE (IF BitAt(a, k) = 1 \/ BitAt(b, k) = 1 THEN 2 ^ k ELSE 0) + OrFrom(a, b, k + 1)

RECURSIVE AndFrom(_, _, _)
AndFrom(a, b, k) ==
    IF k > 7 THEN 0
    ELSE (IF BitAt(a, k) = 1 /\ BitAt(b, k) = 1 THEN 2 ^ k ELSE 0) + AndFrom(a, b, k + 1)

\* a | b, a & b and !a on u8
BitOr(a, b) == OrFrom(a, b, 0)
BitAnd(a, b) == AndFrom(a, b, 0)
BitNot(a) == 255 - a

\* buffer.rs binary_buffer_length
binary_buffer_length(size) ==
    (size.width \div 8) * size.height

\* buffer.rs BinaryBuffer::new for a backing array of L bytes, after its
\* assertions: all bytes zero. fault records a panic of an indexing
\* self.data[i] with i outside the array.
BinaryBuffer_new_L(dimensions, L) ==
    [ data |-> [i \in 1 .. L |-> 0],
      size |-> dimensions,
      bytes_per_row |-> dimensions.width \div 8,
      fault |-> FALSE ]

\* The mutant of new_assertions: only the width is asserted.
new_asserts_width_only(dimensions, L) ==
    dimensions.width % 8 = 0

\* buffer.rs BinaryBuffer::new, its two debug_assert_eq!: TRUE when both hold
new_assertions(dimensions, L) ==
    /\ dimensions.width % 8 = 0
    /\ binary_buffer_length(dimensions) = L

\* buffer.rs BinaryBuffer::<L>::new(dimensions) in a build with or without
\* debug assertions: a panic, or the buffer.
BinaryBuffer_new_in(dimensions, L, debug_assertions) ==
    IF debug_assertions /\ ~new_assertions(dimensions, L)
    THEN [panic |-> TRUE]
    ELSE [panic |-> FALSE, buffer |-> BinaryBuffer_new_L(dimensions, L)]

\* BinaryBuffer::<{binary_buffer_length(dimensions)}>::new(dimensions)
BinaryBuffer_new(dimensions) ==
    BinaryBuffer_new_L(dimensions, binary_buffer_length(dimensions))

\* The bit mask of a pixel when bytes were packed LSB-first.
pixel_mask_lsb(bit_index) == 2 ^ bit_index

\* buffer.rs:114,116: 0x80 >> bit_index
pixel_mask(bit_index) == 128 \div (2 ^ bit_index)

\* self.data[byte_index] |= 0x80 >> bit_index, or &= !(0x80 >> bit_index)
\* (buffer.rs 113-117, 170-174, 219-223). data is indexed from 1 here, from 0
\* in the source; an index outside the array panics.
set_bit(b, byte_index, bit_index, color) ==
    IF b.fault THEN b
    ELSE IF byte_index < 0 \/ byte_index >= Len(b.data)
    THEN [b EXCEPT !.fault = TRUE]
    ELSE IF color = "On"
    THEN [b EXCEPT !.data[byte_index + 1] = BitOr(@, pixel_mask(bit_index))]
    ELSE [b EXCEPT !.data[byte_index + 1] =
                       BitAnd(@, BitNot(pixel_mask(bit_index)))]

\* The mutant of draw_pixel: the right and bottom edges are tested with >
\* instead of >=.
draw_pixel_edge_inclusive(b, px) ==
    IF \/ px.x < 0
       \/ px.x > b.size.width
       \/ px.y < 0
       \/ px.y > b.size.height
    THEN b
    ELSE LET byte_index == (px.x \div 8) + (px.y * b.bytes_per_row)
             bit_index == px.x % 8
         IN  set_bit(b, byte_index, bit_index, px.c)

\* One iteration of the loop of BinaryBuffer::draw_iter (buffer.rs 102-119).
draw_pixel(b, px) ==
    IF \/ px.x < 0
       \/ px.x >= b.size.width
       \/ px.y < 0
       \/ px.y >= b.size.height
    THEN b
    ELSE LET byte_index == (px.x \div 8) + (px.y * b.bytes_per_row)
             bit_index == px.x % 8
         IN  set_bit(b, byte_index, bit_index, px.c)

\* buffer.rs BinaryBuffer::draw_iter
\* for Pixel(point, color) in pixels: the pixels in order, the first half of
\* the sequence and then the second; a panic ends the loop.
RECURSIVE draw_iter(_, _)
draw_iter(b, pixels) ==
    IF pixels = << >> THEN b
    ELSE IF Len(pixels) = 1 THEN draw_pixel(b, pixels[1])
    ELSE LET half == Len(pixels) \div 2
             b1 == draw_iter(b, SubSeq(pixels, 1, half))
         IN  IF b1.fault THEN b1
             ELSE draw_iter(b1, SubSeq(pixels, half + 1, Len(pixels)))

\* Geometry and inputs of the buffer runs.
BufWidthBytes == 3
BufHeight == 2
MaxPixels == 2

BufSize == [width |-> 8 * BufWidthBytes, height |-> BufHeight]

Pixel(x, y, c) == [x |-> x, y |-> y, c |-> c]

InPoints == { Pt(x, y) : x \in 0 .. (BufSize.width - 1), y \in 0 .. (BufSize.height - 1) }

\* Points outside: just beyond each edge, beyond two corners, and further out.
OutPoints ==
    { Pt(-1, 0), Pt(0, -1), Pt(BufSize.width, 0), Pt(0, BufSize.height),
      Pt(-1, -1), Pt(BufSize.width, BufSize.height),
      Pt(-9, 1), Pt(BufSize.width + 8, 1), Pt(3, -3), Pt(3, BufSize.height + 2) }

PixelInputs ==
    { Pixel(p.x, p.y, c) : p \in InPoints \cup OutPoints, c \in {"On", "Off"} }

\* The pixels at the two ends of each byte, and the points outside.
EdgeInputs ==
    { px \in PixelInputs :
        Pt(px.x, px.y) \in OutPoints \/ px.x % 8 \in {0, 7} }

\* The pixel iterators a draw is given: nothing, any single pixel, and every
\* sequence of up to MaxPixels byte-edge or outside pixels.
PixelSeqs ==
    [1 .. 0 -> PixelInputs] \cup [1 .. 1 -> PixelInputs] \cup
    UNION { [1 .. n -> EdgeInputs] : n \in 2 .. MaxPixels }

\* Buffer contents a draw can meet: fresh, all set, and a checker pattern.
StartDatas ==
    { [i \in 1 .. binary_buffer_length(BufSize) |-> 0],
      [i \in 1 .. binary_buffer_length(BufSize) |-> 255],
      [i \in 1 .. binary_buffer_length(BufSize) |-> IF i % 2 = 1 THEN 170 ELSE 85] }

\* ------------------------------------------------------------------------
\* BinaryBuffer::fill_contiguous and fill_solid (buffer.rs 123-265).

Min2(a, b) == IF a < b THEN a ELSE b
Max2(a, b) == IF a > b THEN a ELSE b

\* i32 division, which truncates toward zero.
TruncDiv(a, b) == IF a >= 0 THEN a \div b ELSE -((-a) \div b)

\* Dimensions::bounding_box of a BinaryBuffer (buffer.rs 86-90)
bounding_box(b) == Rect(0, 0, b.size.width, b.size.height)

\* embedded_graphics Rectangle::intersection as called at buffer.rs 129 and
\* 192: the overlap, or a rectangle of size zero when there is none.
intersection(a, c) ==
    IF a.w = 0 \/ a.h = 0 \/ c.w = 0 \/ c.h = 0 THEN Rect(c.x, c.y, 0, 0)
    ELSE LET left == Max2(a.x, c.x)
             top == Max2(a.y, c.y)
             right == Min2(a.x + a.w, c.x + c.w)
             bottom == Min2(a.y + a.h, c.y + c.h)
         IN  IF left >= right \/ top >= bottom THEN Rect(c.x, c.y, 0, 0)
             ELSE Rect(left, top, right - left, bottom - top)

\* The cursor of a fill: the buffer, the byte and the bit written next.
Cursor(b, byte_index, bit_index) ==
    [b |-> b, bit_index |-> bit_index, byte_index |-> byte_index]

\* fill_solid's macro set_next_bit (buffer.rs 217-231): set the bit, advance,
\* and move to the next byte after every 8 pixels.
set_next_bit(cur, color) ==
    LET b2 == set_bit(cur.b, cur.byte_index, cur.bit_index, color)
    IN  IF cur.bit_index + 1 = 8
        THEN Cursor(b2, cur.byte_index + 1, 0)
        ELSE Cursor(b2, cur.byte_index, cur.bit_index + 1)

\* for _x in from..to { set_next_bit!(); }; a panic ends the loop
RECURSIVE set_bits_in(_, _, _, _)
set_bits_in(cur, from, to, color) ==
    IF from >= to THEN cur
    ELSE LET next == set_next_bit(cur, color)
         IN  IF next.b.fault THEN next
             ELSE set_bits_in(next, from + 1, to, color)

\* The mutant of set_byte: the fast fill stores 0xFF whatever the color.
set_byte_always_on(b, byte_index, color) ==
    IF b.fault THEN b
    ELSE IF byte_index < 0 \/ byte_index >= Len(b.data)
    THEN [b EXCEPT !.fault = TRUE]
    ELSE [b EXCEPT !.data[byte_index + 1] = 255]

\* self.data[byte_index] = 0xFF or 0x00 (buffer.rs 246-250)
set_byte(b, byte_index, color) ==
    IF b.fault THEN b
    ELSE IF byte_index < 0 \/ byte_index >= Len(b.data)
    THEN [b EXCEPT !.fault = TRUE]
    ELSE [b EXCEPT !.data[byte_index + 1] = IF color = "On" THEN 255 ELSE 0]

\* for _ in 0..n: the fast fill of fully covered bytes (buffer.rs 245-252)
RECURSIVE fill_full_bytes(_, _, _)
fill_full_bytes(cur, n, color) ==
    IF n <= 0 THEN cur
    ELSE LET next == Cursor(set_byte(cur.b, cur.byte_index, color),
                            cur.byte_index + 1, cur.bit_index)
         IN  IF next.b.fault THEN next
             ELSE fill_full_bytes(next, n - 1, color)

\* One row of fill_solid (buffer.rs 211-261).
fill_solid_row(b, byte_index, x_start, x_end, color) ==
    LET x_full_bytes_start == Min2(TruncDiv(x_start + 7, 8) * 8, x_end)
        x_full_bytes_end == Max2(TruncDiv(x_end, 8) * 8, x_start)
        num_full_bytes_per_row ==
            TruncDiv(x_full_bytes_end - x_full_bytes_start, 8)
        row_start_byte_offset == x_start \div 8
        row_end_byte_offset == b.bytes_per_row - (x_end \div 8)
        c0 == Cursor(b, byte_index + row_start_byte_offset, x_start % 8)
        c1 == IF num_full_bytes_per_row = 0
              THEN set_bits_in(c0, x_start, x_end, color)
              ELSE LET lead == set_bits_in(c0, x_start, x_full_bytes_start, color)
                       full == fill_full_bytes(lead, num_full_bytes_per_row, color)
                       tail == Cursor(full.b, full.byte_index,
                                      x_full_bytes_end % 8)
                   IN  set_bits_in(tail, x_full_bytes_end, x_end, color)
    IN  Cursor(c1.b, c1.byte_index + row_end_byte_offset, c1.bit_index)

\* for _y in y_start..y_end
RECURSIVE fill_solid_rows(_, _, _, _, _, _, _)
fill_solid_rows(b, byte_index, y, y_end, x_start, x_end, color) ==
    IF y >= y_end THEN b
    ELSE LET cur == fill_solid_row(b, byte_index, x_start, x_end, color)
         IN  IF cur.b.fault THEN cur.b
             ELSE fill_solid_rows(cur.b, cur.byte_index, y + 1, y_end,
                                  x_start, x_end, color)

\* buffer.rs BinaryBuffer::fill_solid
fill_solid(b, area, color) ==
    LET drawable_area == intersection(bounding_box(b), area)
    IN  IF drawable_area.w = 0 \/ drawable_area.h = 0 THEN b
        ELSE fill_solid_rows(b, drawable_area.y * b.bytes_per_row,
                             drawable_area.y, drawable_area.y + drawable_area.h,
                             drawable_area.x, drawable_area.x + drawable_area.w,
                             color)

\* The state of fill_contiguous: the cursor, the colors the iterator still
\* holds, how many it has given out, and whether the function has returned.
Walk(b, byte_index, bit_index, colors, consumed, returned) ==
    [b |-> b, bit_index |-> bit_index, byte_index |-> byte_index,
     colors |-> colors, consumed |-> consumed, returned |-> returned]

\* The mutant of skip_color: a position outside the bitmap takes no color
\* from the iterator.
skip_color_keeps(w) == w

\* colors_iter.next() with the value dropped
skip_color(w) ==
    IF w.colors = << >> THEN w
    ELSE [w EXCEPT !.colors = Tail(@), !.consumed = @ + 1]

\* for _ in x_start..x_end { colors_iter.next(); } (buffer.rs 148-150)
RECURSIVE skip_colors(_, _)
skip_colors(w, n) ==
    IF n <= 0 THEN w
    ELSE LET next == skip_color(w)
         IN  IF next.returned THEN next ELSE skip_colors(next, n - 1)

\* One turn of the loop over x (buffer.rs 158-179).
contiguous_pixel(w, x) ==
    IF x < 0 \/ x >= w.b.size.width THEN skip_color(w)
    ELSE IF w.colors = << >> THEN [w EXCEPT !.returned = TRUE]
    ELSE LET b2 == set_bit(w.b, w.byte_index, w.bit_index, Head(w.colors))
             wrap == w.bit_index + 1 = 8
         IN  [w EXCEPT !.b = b2,
                       !.colors = Tail(@),
                       !.consumed = @ + 1,
                       !.byte_index = IF wrap THEN @ + 1 ELSE @,
                       !.bit_index = IF wrap THEN 0 ELSE @ + 1]

\* for x in x_start..x_end; a return or an index panic ends the loop
RECURSIVE contiguous_xs(_, _, _)
contiguous_xs(w, x, x_end) ==
    IF w.returned \/ w.b.fault \/ x >= x_end THEN w
    ELSE contiguous_xs(contiguous_pixel(w, x), x + 1, x_end)

\* One turn of the loop over y (buffer.rs 145-182).
contiguous_row(w, y, x_start, x_end) ==
    IF y < 0 \/ y >= w.b.size.height
    THEN skip_colors(w, x_end - x_start)
    ELSE LET row_start_byte_offset == Max2(x_start, 0) \div 8
             row_end_byte_offset ==
                 w.b.bytes_per_row - (Min2(x_end, w.b.size.width) \div 8)
             w0 == [w EXCEPT !.byte_index = @ + row_start_byte_offset,
                             !.bit_index = Max2(x_start, 0) % 8]
             w1 == contiguous_xs(w0, x_start, x_end)
         IN  IF w1.returned \/ w1.b.fault THEN w1
             ELSE [w1 EXCEPT !.byte_index = @ + row_end_byte_offset]

\* for y in y_start..y_end; a return or an index panic ends the loop
RECURSIVE contiguous_rows(_, _, _, _, _)
contiguous_rows(w, y, y_end, x_start, x_end) ==
    IF w.returned \/ w.b.fault \/ y >= y_end THEN w
    ELSE contiguous_rows(contiguous_row(w, y, x_start, x_end), y + 1, y_end,
                         x_start, x_end)

\* buffer.rs BinaryBuffer::fill_contiguous: the buffer it leaves and the number
\* of colors it took from the iterator.
fill_contiguous(b, area, colors) ==
    LET drawable_area == intersection(bounding_box(b), area)
    IN  IF drawable_area.w = 0 \/ drawable_area.h = 0
        THEN [b |-> b, consumed |-> 0]
        ELSE LET w0 == Walk(b, Max2(area.y, 0) * b.bytes_per_row, 0,
                            colors, 0, FALSE)
                 w1 == contiguous_rows(w0, area.y, area.y + area.h,
                                       area.x, area.x + area.w)
             IN  [b |-> w1.b, consumed |-> w1.consumed]

\* ------------------------------------------------------------------------
\* Gray2SplitBuffer (buffer.rs 268-373): two BinaryBuffers, one per bit.

\* buffer.rs Gray2SplitBuffer::new
Gray2SplitBuffer_new(dimensions) ==
    [low |-> BinaryBuffer_new(dimensions), high |-> BinaryBuffer_new(dimensions)]

\* buffer.rs Gray2SplitBuffer::<L>::new(dimensions) in a build with or
\* without debug assertions: low is built first, then high.
Gray2SplitBuffer_new_in(dimensions, L, debug_assertions) ==
    LET low == BinaryBuffer_new_in(dimensions, L, debug_assertions)
        high == BinaryBuffer_new_in(dimensions, L, debug_assertions)
    IN  IF low.panic \/ high.panic
        THEN [panic |-> TRUE]
        ELSE [panic |-> FALSE, low |-> low.buffer, high |-> high.buffer]

\* The mutant of to_low_and_high_as_binary: the two planes are swapped.
to_high_and_low_as_binary(g) ==
    [low |-> IF BitAnd(g, 2) = 0 THEN "Off" ELSE "On",
     high |-> IF BitAnd(g, 1) = 0 THEN "Off" ELSE "On"]

\* buffer.rs to_low_and_high_as_binary; g is the luma, 0..3
to_low_and_high_as_binary(g) ==
    [low |-> IF BitAnd(g, 1) = 0 THEN "Off" ELSE "On",
     high |-> IF BitAnd(g, 2) = 0 THEN "Off" ELSE "On"]

GRAY_ITER_CHUNK_SIZE == 128

\* The state of Gray2SplitBuffer::draw_iter: the buffer and the two chunks.
Chunks(g, low_chunk, high_chunk) ==
    [g |-> g, low_chunk |-> low_chunk, high_chunk |-> high_chunk]

\* The mutant of gray2_flush_full: a full chunk is dropped without being
\* drawn.
gray2_drop_full(s) ==
    IF Len(s.low_chunk) = GRAY_ITER_CHUNK_SIZE
    THEN Chunks(s.g, << >>, << >>)
    ELSE s

\* if low_chunk.is_full() { draw both chunks, start new ones }
\* (buffer.rs 349-354); a panic while drawing the low chunk leaves the high
\* plane untouched.
gray2_flush_full(s) ==
    IF Len(s.low_chunk) = GRAY_ITER_CHUNK_SIZE
    THEN LET low == draw_iter(s.g.low, s.low_chunk)
         IN  Chunks([low |-> low,
                     high |-> IF low.fault THEN s.g.high
                              ELSE draw_iter(s.g.high, s.high_chunk)],
                    << >>, << >>)
    ELSE s

\* The mutant of gray2_push: the point is pushed without looking whether the
\* chunk is full.
gray2_push_unflushed(s, p) ==
    LET lh == to_low_and_high_as_binary(p.c)
    IN  Chunks(s.g,
               Append(s.low_chunk, [x |-> p.x, y |-> p.y, c |-> lh.low]),
               Append(s.high_chunk, [x |-> p.x, y |-> p.y, c |-> lh.high]))

\* One turn of the loop of Gray2SplitBuffer::draw_iter (buffer.rs 347-359).
gray2_push(s, p) ==
    LET lh == to_low_and_high_as_binary(p.c)
        s1 == gray2_flush_full(s)
    IN  Chunks(s1.g,
               Append(s1.low_chunk, [x |-> p.x, y |-> p.y, c |-> lh.low]),
               Append(s1.high_chunk, [x |-> p.x, y |-> p.y, c |-> lh.high]))

\* for p in pixels: the pixels in order, the first half of the sequence and
\* then the second; a panic ends the loop.
RECURSIVE gray2_loop(_, _)
gray2_loop(s, pixels) ==
    IF pixels = << >> THEN s
    ELSE IF Len(pixels) = 1 THEN gray2_push(s, pixels[1])
    ELSE LET half == Len(pixels) \div 2
             s1 == gray2_loop(s, SubSeq(pixels, 1, half))
         IN  IF s1.g.low.fault \/ s1.g.high.fault THEN s1
             ELSE gray2_loop(s1, SubSeq(pixels, half + 1, Len(pixels)))

\* buffer.rs Gray2SplitBuffer::draw_iter
gray2_draw_iter(g, pixels) ==
    LET s == gray2_loop(Chunks(g, << >>, << >>), pixels)
    IN  IF s.g.low.fault \/ s.g.high.fault THEN s.g
        ELSE IF s.low_chunk # << >>
        THEN LET low == draw_iter(s.g.low, s.low_chunk)
             IN  [low |-> low,
                  high |-> IF low.fault THEN s.g.high
                           ELSE draw_iter(s.g.high, s.high_chunk)]
        ELSE s.g

\* buffer.rs Gray2SplitBuffer::fill_solid
gray2_fill_solid(g, area, color) ==
    LET lh == to_low_and_high_as_binary(color)
        low == fill_solid(g.low, area, lh.low)
    IN  [low |-> low,
         high |-> IF low.fault THEN g.high
                  ELSE fill_solid(g.high, area, lh.high)]

\* ------------------------------------------------------------------------
\* Rotation (buffer.rs 375-519).

Size(width, height) == [width |-> width, height |-> height]

Rotations == {"Degrees90", "Degrees180", "Degrees270"}

\* The mutant of inverse: every rotation is its own inverse.
inverse_is_self(r) == r

\* buffer.rs Rotate::inverse
inverse(r) ==
    CASE r = "Degrees90" -> "Degrees270"
      [] r = "Degrees180" -> "Degrees180"
      [] r = "Degrees270" -> "Degrees90"

\* buffer.rs Rotate::rotate_size
rotate_size(r, size) ==
    IF r \in {"Degrees90", "Degrees270"}
    THEN Size(size.height, size.width)
    ELSE size

\* The mutant of rotate_point: 90 and 270 degrees are exchanged.
rotate_point_swapped(r, point, source_bounds) ==
    CASE r = "Degrees270" -> Pt(source_bounds.height - point.y - 1, point.x)
      [] r = "Degrees180" -> Pt(source_bounds.width - point.x - 1,
                                source_bounds.height - point.y - 1)
      [] r = "Degrees90" -> Pt(point.y, source_bounds.width - point.x - 1)

\* buffer.rs Rotate::rotate_point
rotate_point(r, point, source_bounds) ==
    CASE r = "Degrees90" -> Pt(source_bounds.height - point.y - 1, point.x)
      [] r = "Degrees180" -> Pt(source_bounds.width - point.x - 1,
                                source_bounds.height - point.y - 1)
      [] r = "Degrees270" -> Pt(point.y, source_bounds.width - point.x - 1)

\* The mutant of rotate_rectangle: the top-left corner is rotated for every
\* rotation.
rotate_rectangle_top_left(r, rectangle, source_bounds) ==
    LET new_top_left == rotate_point(r, Pt(rectangle.x, rectangle.y), source_bounds)
        new_size == rotate_size(r, Size(rectangle.w, rectangle.h))
    IN  Rect(new_top_left.x, new_top_left.y, new_size.width, new_size.height)

\* buffer.rs Rotate::rotate_rectangle
rotate_rectangle(r, rectangle, source_bounds) ==
    LET corner ==
            CASE r = "Degrees90" ->
                   Pt(rectangle.x, rectangle.y + rectangle.h - 1)
              [] r = "Degrees180" ->
                   Pt(rectangle.x + rectangle.w - 1, rectangle.y + rectangle.h - 1)
              [] r = "Degrees270" ->
                   Pt(rectangle.x + rectangle.w - 1, rectangle.y)
        new_top_left == rotate_point(r, corner, source_bounds)
        new_size == rotate_size(r, Size(rectangle.w, rectangle.h))
    IN  Rect(new_top_left.x, new_top_left.y, new_size.width, new_size.height)

\* buffer.rs RotatedBuffer::new
RotatedBuffer_new(buffer, rotation) ==
    LET inner_bounds == bounding_box(buffer)
    IN  [buffer |-> buffer,
         rotation |-> rotation,
         bounds |-> rotate_rectangle(inverse(rotation), inner_bounds,
                                     Size(inner_bounds.w, inner_bounds.h))]

\* The mutant of rotated_pixel: the point is rotated in the space of the
\* inner buffer instead of the rotated one.
rotated_pixel_in_inner(rb, px) ==
    LET rotated_point ==
            rotate_point(rb.rotation, Pt(px.x, px.y), rb.buffer.size)
    IN  [x |-> rotated_point.x, y |-> rotated_point.y, c |-> px.c]

\* The closure of RotatedBuffer::draw_iter (buffer.rs 513-516)
rotated_pixel(rb, px) ==
    LET rotated_point ==
            rotate_point(rb.rotation, Pt(px.x, px.y),
                         Size(rb.bounds.w, rb.bounds.h))
    IN  [x |-> rotated_point.x, y |-> rotated_point.y, c |-> px.c]

\* buffer.rs RotatedBuffer::draw_iter
rotated_draw_iter(rb, pixels) ==
    [rb EXCEPT !.buffer =
        draw_iter(@, [i \in 1 .. Len(pixels) |-> rotated_pixel(rb, pixels[i])])]

\* Rectangle::points(): the points of the area row by row, none when the
\* area is empty.
points(area) ==
    [i \in 1 .. (area.w * area.h) |->
        Pt(area.x + ((i - 1) % area.w), area.y + ((i - 1) \div area.w))]

\* The mutant of rotated_fill_contiguous: the area is handed to the inner
\* buffer as it is.
rotated_fill_contiguous_unrotated(rb, area, colors) ==
    [rb EXCEPT !.buffer = fill_contiguous(@, area, colors).b]

\* DrawTarget::fill_contiguous of a RotatedBuffer (buffer.rs 505-519): the
\* impl has draw_iter only, so the trait's provided method runs, which draws
\* area.points() zipped with the colors through draw_iter.
rotated_fill_contiguous(rb, area, colors) ==
    LET pts == points(area)
        n == Min2(Len(pts), Len(colors))
    IN  rotated_draw_iter(rb,
            [i \in 1 .. n |-> [x |-> pts[i].x, y |-> pts[i].y, c |-> colors[i]]])

\* DrawTarget::fill_solid of a RotatedBuffer: the trait's provided method,
\* fill_contiguous with the color repeated.
rotated_fill_solid(rb, area, color) ==
    rotated_fill_contiguous(rb, area, [i \in 1 .. (area.w * area.h) |-> color])

\* ------------------------------------------------------------------------
\* Inputs of the fills, of the gray buffer and of the rotations.

\* Rectangles around and across the bitmap: origins left of, above, inside and
\* at the far edges; sizes empty, narrower than a byte, byte-sized, spanning
\* bytes with unaligned ends, and larger than the bitmap.
AreaXs == { -2, 0, 3, 8, BufSize.width - 3, BufSize.width }
AreaYs == { -1, 0, 1, BufSize.height }
AreaWs == { 0, 1, 5, 8, 11, BufSize.width - 5, BufSize.width, BufSize.width + 3 }
AreaHs == { 0, 1, BufSize.height, BufSize.height + 2 }
Areas == { Rect(x, y, w, h) : x \in AreaXs, y \in AreaYs, w \in AreaWs, h \in AreaHs }

Colors == {"On", "Off"}

\* Color iterators of n items: alternating, and On at every third item.
ColorSeq(k, n) ==
    [i \in 1 .. n |->
        IF k = 1 THEN (IF i % 2 = 1 THEN "On" ELSE "Off")
        ELSE (IF i % 3 = 0 THEN "On" ELSE "Off")]

\* The iterators tried on an area: empty, one color, one short of the area,
\* exactly the area, and one more.
ColorSeqsFor(area) ==
    { ColorSeq(k, n) :
        k \in {1, 2},
        n \in { m \in {0, 1, area.w * area.h - 1, area.w * area.h,
                       area.w * area.h + 1} : m >= 0 } }

Lumas == 0 .. 3

\* The high plane a gray draw meets beside a low plane d: every other byte
\* inverted.
HighStart(d) == [i \in 1 .. Len(d) |-> IF i % 2 = 0 THEN d[i] ELSE 255 - d[i]]

GrayInputs ==
    { Pixel(p.x, p.y, g) : p \in InPoints \cup OutPoints, g \in Lumas }

\* Gray pixels at three corners of bytes and at two points outside.
GrayCornerInputs ==
    { Pixel(p.x, p.y, g) :
        p \in { Pt(0, 0), Pt(7, 0), Pt(BufSize.width - 1, BufSize.height - 1),
                Pt(-1, 0), Pt(0, BufSize.height) },
        g \in Lumas }

\* The k-th point of a walk over the bitmap and a margin of one around it.
PointAt(k) ==
    Pt((k % (BufSize.width + 2)) - 1,
       ((k \div (BufSize.width + 2)) % (BufSize.height + 2)) - 1)

\* A long iterator: n pixels, stepping through the walk with the given stride.
LongGraySeq(n, stride) ==
    [i \in 1 .. n |->
        LET p == PointAt(i * stride)
        IN  Pixel(p.x, p.y, (i + (i \div 3)) % 4)]

\* Lengths around the chunk capacity and around twice the capacity.
LongLengths ==
    { GRAY_ITER_CHUNK_SIZE - 1, GRAY_ITER_CHUNK_SIZE, GRAY_ITER_CHUNK_SIZE + 1,
      2 * GRAY_ITER_CHUNK_SIZE - 1, 2 * GRAY_ITER_CHUNK_SIZE,
      2 * GRAY_ITER_CHUNK_SIZE + 1 }

GraySeqs ==
    [1 .. 0 -> GrayInputs] \cup [1 .. 1 -> GrayInputs] \cup
    UNION { [1 .. n -> GrayCornerInputs] : n \in 2 .. MaxPixels } \cup
    { LongGraySeq(n, stride) : n \in LongLengths, stride \in {1, 5, 7} }

\* Sizes of the spaces points are rotated in: small ones, the sizes of the
\* repository's examples, and the bitmap.
RotSizes ==
    { Size(w, h) : w \in 1 .. 3, h \in 1 .. 3 } \cup
    { Size(10, 20), Size(5, 5), Size(BufSize.width, BufSize.height) }

\* Points rotated in a space: its corners, their neighbours inside and
\* outside, and the centre.
RotPoints(size) ==
    { Pt(x, y) :
        x \in { -1, 0, 1, 2, size.width \div 2, size.width - 2, size.width - 1,
                size.width },
        y \in { -1, 0, 1, 2, size.height \div 2, size.height - 2,
                size.height - 1, size.height } }

\* Pixels drawn through a RotatedBuffer: one at any point of the square that
\* holds the bitmap in every orientation, with a margin of one.
RotSpan == Max2(BufSize.width, BufSize.height)
RotPixelInputs ==
    { Pixel(x, y, c) : x \in -1 .. RotSpan, y \in -1 .. RotSpan, c \in Colors }
RotCornerInputs ==
    { Pixel(p.x, p.y, c) :
        p \in { Pt(0, 0), Pt(1, 1), Pt(BufSize.height - 1, BufSize.width - 1),
                Pt(BufSize.width - 1, BufSize.height - 1), Pt(-1, -1) },
        c \in Colors }
RotPixelSeqs ==
    [1 .. 0 -> RotPixelInputs] \cup [1 .. 1 -> RotPixelInputs] \cup
    UNION { [1 .. n -> RotCornerInputs] : n \in 2 .. MaxPixels }

\* Constructions tried: the bitmap's own size, a width that is no multiple of
\* 8, and a size that does not fill the array.
NewDimensions == { BufSize, Size(10, 10), Size(16, 10), Size(10, 16), Size(16, 8) }
NewLengths == { binary_buffer_length(BufSize), 16 }

\* Rectangles rotated in a space: inside it, over its edges, and the one of
\* test_rotate_rectangle.
RotRectSizes == { Size(4, 8), Size(8, 4), Size(3, 3), Size(BufSize.width, BufSize.height) }
RotRects(size) ==
    { Rect(x, y, w, h) :
        x \in { -1, 0, 1, size.width - 1 },
        y \in { -2, 0, 1 },
        w \in { 1, 2, 3, size.width },
        h \in { 1, 2, size.height + 1 } }

\* Areas filled through a RotatedBuffer, in outer coordinates: empty ones,
\* ones inside the box for some rotation, ones over its edges and ones wholly
\* outside; (-4, -4) 8x8 is the area of test_rotated_buffer_fill_solid.
RotAreas ==
    { Rect(x, y, w, h) :
        x \in { -4, -1, 0, 1 },
        y \in { -4, 0, BufSize.width - 2 },
        w \in { 0, 1, 3, 8, BufSize.width + 1 },
        h \in { 0, 2, 8 } }

\* Colors for a fill through a RotatedBuffer: one for each point, one fewer,
\* and one more.
RotColorSeqsFor(area) ==
    { ColorSeq(k, n) :
        k \in {1, 2},
        n \in { area.w * area.h, Max2(area.w * area.h - 1, 0),
                area.w * area.h + 1 } }

\* ------------------------------------------------------------------------
\* State.
\*   drv        the driver the session belongs to
\*   busy_when  the adapter's configured busy level (BusyHw::busy_when)
\*   st         the session's type-state: tag, refresh mode, the 7.5"
\*              session's data_settings (0 in the 2.9" sessions, which have
\*              none), and for Asleep the awake state kept in wake_state
\*   op, prog   the running operation and the instructions it has left
\*   pc         position inside the running operation / send
\*   dc, rst, busy   pin levels
\*   hwlog      the pin writes, delays and bus writes of the running (or
\*              last) operation, in order
\*   gate       the busy-pin reads and waits of the running (or last) send,
\*              each with the length hwlog had when it happened
\*   calls      the sends the running (or last) operation has started
\*   result     how the last operation ended
\*   initDone, sleptFrom, lastBus   history: an init has returned Ok; the
\*              state the last sleep() was called in; the bytes of the last
\*              transaction put on the bus
\*   bb, bbPrev, bbPixels, bbPhase   a BinaryBuffer, its contents before the
\*              last draw, the pixels of that draw, and the draw's phase
\*   g2, g2Prev a Gray2SplitBuffer and its two planes before the last call
\*   bbArgs, bbOut   the arguments of the last buffer call other than a
\*              BinaryBuffer draw, and what it returned or reported
\*   panel      the panel on the other end of the bus: its two image RAMs
\*              and what each activation displayed and diffed against
\*   history    the RAM writes and updates the session has completed
\*   debugBuild whether the crate is built with debug assertions
\*   power      the level of the 7.5" panel's power-enable line
VARIABLES drv, busy_when, st, op, prog, pc, dc, rst, busy, hwlog, gate, calls,
          result, initDone, sleptFrom, lastBus,
          bb, bbPrev, bbPixels, bbPhase, g2, g2Prev, bbArgs, bbOut,
          panel, history, debugBuild, power

drvVars == << drv, busy_when, st, op, prog, pc, dc, rst, busy, hwlog, gate, calls,
              result, initDone, sleptFrom, lastBus >>
bufVars == << bb, bbPrev, bbPixels, bbPhase, g2, g2Prev, bbArgs, bbOut >>
panelVars == << panel, history, debugBuild, power >>
vars == << drv, busy_when, st, op, prog, pc, dc, rst, busy, hwlog, gate, calls,
           result, initDone, sleptFrom, lastBus, bb, bbPrev, bbPixels, bbPhase,
           g2, g2Prev, bbArgs, bbOut, panel, history, debugBuild, power >>

\* ------------------------------------------------------------------------
\* Type-states (epd2in9.rs 200-231, epd2in9_v2.rs 339-371).
StateUninitialized ==
    [mode |-> "-", data_settings |-> 0, tag |-> "Uninitialized", wtag |-> "-",
     wmode |-> "-", wdata_settings |-> 0]
StateReady(mode) ==
    [mode |-> mode, data_settings |-> 0, tag |-> "Ready", wtag |-> "-",
     wmode |-> "-", wdata_settings |-> 0]
StateAsleep(w) ==
    [mode |-> "-", data_settings |-> 0, tag |-> "Asleep", wtag |-> w.tag,
     wmode |-> w.mode, wdata_settings |-> w.data_settings]
\* epd7in5_v2.rs StatePoweredOff (296-299)
StatePoweredOff ==
    [mode |-> "-", data_settings |-> 0, tag |-> "PoweredOff", wtag |-> "-",
     wmode |-> "-", wdata_settings |-> 0]
\* No session state: the filler of sleptFrom while nothing has slept.
NoState ==
    [mode |-> "-", data_settings |-> 0, tag |-> "None", wtag |-> "-",
     wmode |-> "-", wdata_settings |-> 0]
\* The handle was consumed by an operation that returned Err.
Dropped ==
    [mode |-> "-", data_settings |-> 0, tag |-> "Dropped", wtag |-> "-",
     wmode |-> "-", wdata_settings |-> 0]
\* epd7in5_v2.rs StateReady { mode, data_settings } (308-312)
e75_StateReady(mode, data_settings) ==
    [StateReady(mode) EXCEPT !.data_settings = data_settings]

\* StateAsleep::wake_state
wake_state(s) ==
    [mode |-> s.wmode, data_settings |-> s.wdata_settings, tag |-> s.wtag, wtag |-> "-",
     wmode |-> "-", wdata_settings |-> 0]

\* impl StateAwake for StateUninitialized / StateReady
StateAwake(s) == s.tag \in {"Uninitialized", "Ready"}

\* ------------------------------------------------------------------------
\* Which operations a session offers in which state: the bounds of the impl
\* blocks.
AwakeOps(d) ==
    IF d = "Epd2In9" THEN {"init", "set_border", "send", "reset", "sleep"}
    ELSE {"init", "send", "reset", "sleep"}

ReadyOps ==
    { "set_refresh_mode", "set_window", "set_cursor", "update_display",
      "write_framebuffer", "write_base_framebuffer", "display_framebuffer" }

\* The operations of a Ready session of driver d: Epd2In9V2 has
\* set_ram_bypass as well (epd2in9_v2.rs 531-549).
ReadyOpsOf(d) ==
    IF d = "Epd2In9V2" THEN ReadyOps \cup {"set_ram_bypass"} ELSE ReadyOps

AsleepOps == {"reset", "wake"}

\* The mutant of Available: the Ready operations are offered to every awake
\* session.
AvailableAwake(d, name, s) ==
    CASE s.tag = "Uninitialized" -> name \in AwakeOps(d) \cup ReadyOpsOf(d)
      [] s.tag = "Ready" -> name \in AwakeOps(d) \cup ReadyOpsOf(d)
      [] s.tag = "Asleep" -> name \in AsleepOps
      [] OTHER -> FALSE

\* The mutant of Available: sleep is offered to a sleeping session too.
AvailableSleepTwice(d, name, s) ==
    CASE s.tag = "Uninitialized" -> name \in AwakeOps(d)
      [] s.tag = "Ready" -> name \in AwakeOps(d) \cup ReadyOpsOf(d)
      [] s.tag = "Asleep" -> name \in AsleepOps \cup {"sleep"}
      [] OTHER -> FALSE

\* The mutant of e75_Available: a powered-off session can be initialised.
e75_Available_init_unpowered(name, s) ==
    CASE s.tag = "PoweredOff" -> name \in {"power_on", "init"}
      [] s.tag = "Uninitialized" -> name \in {"init", "send", "reset", "sleep"}
      [] s.tag = "Ready" ->
           name \in {"init", "send", "reset", "sleep", "set_refresh_mode",
                     "set_border", "update_display", "write_framebuffer",
                     "write_base_framebuffer", "display_framebuffer",
                     "display_partial_framebuffer"}
      [] s.tag = "Asleep" -> name \in {"reset", "wake", "power_off"}
      [] OTHER -> FALSE

\* The operations of a 7.5" session (epd7in5_v2.rs impl blocks 345-615).
e75_Available(name, s) ==
    CASE s.tag = "PoweredOff" -> name = "power_on"
      [] s.tag = "Uninitialized" -> name \in {"init", "send", "reset", "sleep"}
      [] s.tag = "Ready" ->
           name \in {"init", "send", "reset", "sleep", "set_refresh_mode",
                     "set_border", "update_display", "write_framebuffer",
                     "write_base_framebuffer", "display_framebuffer",
                     "display_partial_framebuffer"}
      [] s.tag = "Asleep" -> name \in {"reset", "wake", "power_off"}
      [] OTHER -> FALSE

Available(d, name, s) ==
    IF d = "Epd7In5v2" THEN e75_Available(name, s)
    ELSE
    CASE s.tag = "Uninitialized" -> name \in AwakeOps(d)
      [] s.tag = "Ready" -> name \in AwakeOps(d) \cup ReadyOpsOf(d)
      [] s.tag = "Asleep" -> name \in AsleepOps
      [] OTHER -> FALSE

\* Operations that take `self` by value: an Err return drops the session.
Consumes(d, name) ==
    IF d = "Epd2In9"
    THEN name \in {"init", "set_refresh_mode", "reset", "sleep", "wake"}
    ELSE IF d = "Epd7In5v2"
    THEN name \in {"power_on", "power_off", "init", "set_refresh_mode",
                   "reset", "sleep", "wake"}
    ELSE name \in {"init", "reset", "sleep", "wake"}

\* An operation and its arguments; cmd and data are the arguments of send,
\* low_bypass and high_bypass those of set_ram_bypass.
MkOp(name, mode, color, shape, pos, buf) ==
    [mode |-> mode, cmd |-> 0, data |-> << >>, low_bypass |-> "-",
     high_bypass |-> "-", color |-> color, shape |-> shape, buf |-> buf,
     name |-> name, pos |-> pos]
NoOp == MkOp("none", "-", "-", NoRect, Pt(0, 0), NoBuf)

\* The mutant of e75_Prog: set_refresh_mode re-runs the mode's set-up even
\* when the session is already in that mode.
e75_Prog_always_reinit(o, s) ==
    CASE o.name = "power_on" -> << PowerI(High) >>
      [] o.name = "power_off" -> << PowerI(Low) >>
      [] o.name = "init" -> e75_init_prog(o.mode)
      [] o.name = "set_refresh_mode" -> e75_set_refresh_mode_impl(o.mode)
      [] o.name = "send" -> send_prog(o.cmd, o.data)
      [] o.name = "set_border" -> e75_set_border_prog(o.color, s.data_settings)
      [] o.name = "update_display" -> e75_update_display_prog
      [] o.name = "write_framebuffer" -> e75_write_framebuffer_prog(o.buf)
      [] o.name = "write_base_framebuffer" ->
           e75_write_base_framebuffer_prog(o.buf)
      [] o.name = "display_framebuffer" ->
           e75_write_framebuffer_prog(o.buf) \o e75_update_display_prog
      [] o.name = "display_partial_framebuffer" ->
           e75_display_partial_prog(s.mode, o.buf, o.shape, debugBuild)
      [] o.name = "reset" -> e75_reset_impl
      [] o.name = "sleep" -> e75_sleep_prog
      [] o.name = "wake" -> e75_reset_impl
      [] OTHER -> << >>

\* The instructions of operation o called on a 7.5" session in state s.
e75_Prog(o, s) ==
    CASE o.name = "power_on" -> << PowerI(High) >>
      [] o.name = "power_off" -> << PowerI(Low) >>
      [] o.name = "init" -> e75_init_prog(o.mode)
      [] o.name = "set_refresh_mode" ->
           IF s.mode = o.mode THEN << >> ELSE e75_set_refresh_mode_impl(o.mode)
      [] o.name = "send" -> send_prog(o.cmd, o.data)
      [] o.name = "set_border" -> e75_set_border_prog(o.color, s.data_settings)
      [] o.name = "update_display" -> e75_update_display_prog
      [] o.name = "write_framebuffer" -> e75_write_framebuffer_prog(o.buf)
      [] o.name = "write_base_framebuffer" ->
           e75_write_base_framebuffer_prog(o.buf)
      [] o.name = "display_framebuffer" ->
           e75_write_framebuffer_prog(o.buf) \o e75_update_display_prog
      [] o.name = "display_partial_framebuffer" ->
           e75_display_partial_prog(s.mode, o.buf, o.shape, debugBuild)
      [] o.name = "reset" -> e75_reset_impl
      [] o.name = "sleep" -> e75_sleep_prog
      [] o.name = "wake" -> e75_reset_impl
      [] OTHER -> << >>

\* The instructions of operation o called on a session of driver d in state s.
Prog(d, o, s) ==
    IF d = "Epd7In5v2" THEN e75_Prog(o, s)
    ELSE
    CASE o.name = "init" ->
           IF d = "Epd2In9" THEN init_prog(o.mode) ELSE v2_init_prog(o.mode)
      [] o.name = "set_refresh_mode" ->
           IF s.mode = o.mode THEN << >>
           ELSE IF d = "Epd2In9" THEN set_refresh_mode_impl(o.mode)
                ELSE v2_set_refresh_mode_impl(o.mode)
      [] o.name = "send" -> send_prog(o.cmd, o.data)
      [] o.name = "set_ram_bypass" ->
           v2_set_ram_bypass_prog(s.mode, o.low_bypass, o.high_bypass)
      [] o.name = "set_border" -> set_border_prog(o.color)
      [] o.name = "set_window" -> set_window_in(d, s.mode, o.shape, debugBuild)
      [] o.name = "set_cursor" -> set_cursor_in(d, s.mode, o.pos, debugBuild)
      [] o.name = "update_display" ->
           IF d = "Epd2In9" THEN update_display_prog
           ELSE v2_update_display_prog(s.mode)
      [] o.name = "write_framebuffer" ->
           IF d = "Epd2In9" THEN write_framebuffer_prog(o.buf)
           ELSE v2_write_framebuffer_prog(s.mode, o.buf)
      [] o.name = "write_base_framebuffer" ->
           IF d = "Epd2In9" THEN write_base_framebuffer_prog(o.buf)
           ELSE v2_write_base_framebuffer_prog(s.mode, o.buf)
      [] o.name = "display_framebuffer" ->
           IF d = "Epd2In9"
           THEN write_framebuffer_prog(o.buf) \o update_display_prog
           ELSE v2_write_framebuffer_prog(s.mode, o.buf) \o
                v2_update_display_prog(s.mode)
      [] o.name = "reset" -> reset_impl
      [] o.name = "sleep" -> sleep_prog
      [] o.name = "wake" -> reset_impl
      [] OTHER -> << >>

\* The mutant of After: waking always yields an uninitialised session.
AfterWakeUninit(o, s) ==
    CASE o.name = "init" -> StateReady(o.mode)
      [] o.name = "set_refresh_mode" -> StateReady(o.mode)
      [] o.name = "sleep" -> StateAsleep(s)
      [] o.name \in {"reset", "wake"} ->
           IF s.tag = "Asleep" THEN StateUninitialized ELSE s
      [] OTHER -> s

\* The session an operation returns with Ok (DisplayOut, or the mutated
\* self); a 7.5" session has the data_settings its program assigned.
After(o, s) ==
    CASE o.name = "init" -> e75_StateReady(o.mode, s.data_settings)
      [] o.name = "set_refresh_mode" -> e75_StateReady(o.mode, s.data_settings)
      [] o.name = "sleep" -> StateAsleep(s)
      [] o.name = "power_on" -> StateUninitialized
      [] o.name = "power_off" -> StatePoweredOff
      [] o.name \in {"reset", "wake"} ->
           IF s.tag = "Asleep" THEN wake_state(s) ELSE s
      [] OTHER -> s
\* ------------------------------------------------------------------------
\* The panel at the other end of the bus.  Two views of it are followed, one
\* per specification: the two image RAMs behind an Epd2In9 session, as the
\* driver's comments describe them (epd2in9.rs 407-409, 444-448; lib.rs
\* 215-224), and the registers the refresh-mode parameters are written to.

IsPrefix(s, t) ==
    /\ Len(s) <= Len(t)
    /\ \A i \in 1 .. Len(s) : s[i] = t[i]

\* The sends of a program, as send records them in calls.
SendsOf(p) ==
    LET s == SelectSeq(p, LAMBDA i : i.k = "send")
    IN  [j \in 1 .. Len(s) |-> [cmd |-> s[j].cmd, data |-> s[j].data]]

\* The two image RAMs: the current one is written by WriteRam and the old
\* one by WriteOldRam; an activation displays the current RAM, diffing it
\* against the old one in the partial modes, and then swaps the two.
panel_receive(p, call) ==
    CASE call.cmd = WriteRam -> [p EXCEPT !.cur = call.data]
      [] call.cmd = WriteOldRam -> [p EXCEPT !.old = call.data]
      [] call.cmd = MasterActivation ->
           [cur |-> p.old, old |-> p.cur,
            shown |-> Append(p.shown, p.cur),
            base |-> Append(p.base, p.old)]
      [] OTHER -> p

\* The parameters of a mode as the v2 driver sends them.
ParamSends(mode) == SendsOf(v2_set_refresh_mode_impl(mode))

\* The mode registers (spec.md, "Refresh modes"; epd2in9.rs 103-115):
\* SwReset restores the default bypass 0x00, DisplayUpdateControl1 sets it
\* from the first byte of its payload; cfg is the part of a mode's parameter
\* sequence received so far, done the mode whose sequence was last complete.
mode_receive(p, call) ==
    LET grown == IF call.cmd = SwReset THEN << call >>
                 ELSE IF p.cfg = << >> THEN << >>
                 ELSE Append(p.cfg, call)
        whole == { m \in RefreshModes("Epd2In9V2") : grown = ParamSends(m) }
        part == { m \in RefreshModes("Epd2In9V2") : IsPrefix(grown, ParamSends(m)) }
    IN  [cfg |-> IF part = {} \/ whole # {} THEN << >> ELSE grown,
         bypass |-> IF call.cmd = SwReset THEN 0
                    ELSE IF call.cmd = DisplayUpdateControl1 /\ call.data # << >>
                    THEN call.data[1]
                    ELSE p.bypass,
         done |-> IF whole # {} THEN CHOOSE m \in whole : TRUE ELSE p.done]

\* What an operation that returned Ok adds to the history of the session.
Entries(o) ==
    CASE o.name = "write_framebuffer" -> << [name |-> "write", image |-> o.buf.frames[1]] >>
      [] o.name = "write_base_framebuffer" ->
           << [name |-> "write_base", image |-> o.buf.frames[1]] >>
      [] o.name = "update_display" -> << [name |-> "update", image |-> << >>] >>
      [] o.name = "display_framebuffer" ->
           << [name |-> "write", image |-> o.buf.frames[1]],
              [name |-> "update", image |-> << >>] >>
      [] OTHER -> << >>

\* One step of send (comms.rs 51-62) as the panel sees it.  The panel takes
\* a send when its last byte has been written: the command byte of a send
\* without payload, the payload otherwise.  Of a send that fails between its
\* command byte and the end of its payload the panel has the command alone.
\* history is the run of calls that returned Ok since the last call that did
\* not; shown and base are what the activations of those calls displayed
\* and diffed against.  A specification that follows no panel keeps panel at
\* << >>.
PanelListen ==
    IF DOMAIN panel = {} THEN UNCHANGED << panel, history >>
    ELSE
    LET whole == [cmd |-> Head(prog).cmd, data |-> Head(prog).data]
        bare == [cmd |-> Head(prog).cmd, data |-> << >>]
        heard == IF pc \in {"cmd", "data"} /\ pc' = "run" THEN << whole >>
                 ELSE IF pc \in {"dc_high", "data"} /\ pc' = "idle" THEN << bare >>
                 ELSE << >>
        next == IF heard = << >> THEN panel
                ELSE IF "cfg" \in DOMAIN panel THEN mode_receive(panel, heard[1])
                ELSE panel_receive(panel, heard[1])
        ended == pc # "idle" /\ pc' = "idle"
    IN  /\ panel' = IF ended /\ result' # "Ok" /\ "shown" \in DOMAIN panel
                    THEN [next EXCEPT !.shown = << >>, !.base = << >>]
                    ELSE next
        /\ history' = IF ~ended THEN history
                      ELSE IF result' = "Ok" THEN history \o Entries(op)
                      ELSE << >>


\* ------------------------------------------------------------------------
\* Hardware events.
Ev(ev, lvl, bytes, ok) == [lvl |-> lvl, ev |-> ev, bytes |-> bytes, ok |-> ok]
GateEv(ev, lvl, at, ok) == [lvl |-> lvl, ev |-> ev, ok |-> ok, at |-> at]

Other(l) == IF l = High THEN Low ELSE High

\* The mutant of is_high: the test of the busy level is inverted.
is_low(l) == l = Low

\* InputPin::is_high on the busy pin (comms.rs:30, hw.rs:121)
is_high(l) == l = High

\* The mutant of wait_for_low_done: the wait gives up whatever the pin reads.
wait_for_low_gives_up(l) == l \in Levels

\* Wait::wait_for_low completes when the pin is low (comms.rs:32, hw.rs:123)
wait_for_low_done(l) == l = Low

\* A step of a session touches no buffer, build setting or power pin; the
\* panel listens to the bus.
BufIdle ==
    /\ UNCHANGED << bufVars, debugBuild, power >>
    /\ PanelListen

\* A session operation is called: its program is fixed by the arguments and
\* the state it is called in.
Begin(o) ==
    /\ pc = "idle"
    /\ result # "Panic"
    /\ Available(drv, o.name, st)
    /\ op' = o
    /\ prog' = Prog(drv, o, st)
    /\ pc' = "run"
    /\ hwlog' = << >>
    /\ gate' = << >>
    /\ calls' = << >>
    /\ result' = "none"
    /\ sleptFrom' = IF o.name = "sleep" THEN st
                    ELSE IF st.tag = "Asleep" THEN sleptFrom
                    ELSE NoState
    /\ UNCHANGED << drv, busy_when, st, dc, rst, busy, initDone, lastBus >>
    /\ BufIdle

OpInit ==
    \E m \in RefreshModes(drv) :
        Begin(MkOp("init", m, "-", NoRect, Pt(0, 0), NoBuf))

OpSetRefreshMode ==
    \E m \in RefreshModes(drv) :
        Begin(MkOp("set_refresh_mode", m, "-", NoRect, Pt(0, 0), NoBuf))

OpSetBorder ==
    \E c \in {"On", "Off"} :
        Begin(MkOp("set_border", "-", c, NoRect, Pt(0, 0), NoBuf))

\* The commands and payloads handed to send.
SendInputs(d) ==
    IF d = "Epd7In5v2"
    THEN { [cmd |-> DataStartTransmission2, data |-> <<1, 2, 3>>],
           [cmd |-> DisplayRefresh, data |-> << >>] }
    ELSE { [cmd |-> WriteRam, data |-> <<1, 2, 3>>],
           [cmd |-> SwReset, data |-> << >>] }

OpSend ==
    \E i \in SendInputs(drv) :
        Begin([MkOp("send", "-", "-", NoRect, Pt(0, 0), NoBuf)
                  EXCEPT !.cmd = i.cmd, !.data = i.data])

\* The << low_bypass, high_bypass >> handed to set_ram_bypass.
BypassInputs ==
    { << "Normal", "Normal" >>, << "AllZero", "Inverted" >>,
      << "Inverted", "AllZero" >> }

OpSetRamBypass ==
    \E i \in BypassInputs :
        Begin([MkOp("set_ram_bypass", "-", "-", NoRect, Pt(0, 0), NoBuf)
                  EXCEPT !.low_bypass = i[1], !.high_bypass = i[2]])

OpSetWindow ==
    \E r \in Shapes :
        Begin(MkOp("set_window", "-", "-", r, Pt(0, 0), NoBuf))

OpSetCursor ==
    \E p \in Positions :
        Begin(MkOp("set_cursor", "-", "-", NoRect, p, NoBuf))

OpUpdateDisplay ==
    Begin(MkOp("update_display", "-", "-", NoRect, Pt(0, 0), NoBuf))

OpWriteFramebuffer ==
    \E b \in (IF drv = "Epd2In9V2" THEN BinaryViews \cup Gray2Views ELSE BinaryViews) :
        Begin(MkOp("write_framebuffer", "-", "-", NoRect, Pt(0, 0), b))

OpWriteBaseFramebuffer ==
    \E b \in BinaryViews :
        Begin(MkOp("write_base_framebuffer", "-", "-", NoRect, Pt(0, 0), b))

OpDisplayFramebuffer ==
    \E b \in (IF drv = "Epd2In9V2" THEN BinaryViews \cup Gray2Views ELSE BinaryViews) :
        Begin(MkOp("display_framebuffer", "-", "-", NoRect, Pt(0, 0), b))

OpReset ==
    Begin(MkOp("reset", "-", "-", NoRect, Pt(0, 0), NoBuf))

OpSleep ==
    Begin(MkOp("sleep", "-", "-", NoRect, Pt(0, 0), NoBuf))

OpWake ==
    Begin(MkOp("wake", "-", "-", NoRect, Pt(0, 0), NoBuf))

\* The mutant of ReturnErr: the error is swallowed and the failed step is
\* tried again.
ReturnErrRetried ==
    /\ UNCHANGED << drv, busy_when, st, op, prog, pc, dc, rst, busy, calls,
                    result, initDone, sleptFrom, lastBus >>
    /\ BufIdle

\* The mutant of ReturnErr: a borrowed session records the mode asked for
\* before its parameters are sent, so a failed call keeps it.
ReturnErr_recorded_first ==
    /\ result' = "Err"
    /\ pc' = "idle"
    /\ prog' = << >>
    /\ st' = IF Consumes(drv, op.name) THEN Dropped ELSE After(op, st)
    /\ UNCHANGED << drv, busy_when, op, dc, rst, busy, calls, initDone,
                    sleptFrom, lastBus >>
    /\ BufIdle

\* `?` on an Err: the operation returns the error at once.  A session taken
\* by value is dropped with it.
ReturnErr ==
    /\ result' = "Err"
    /\ pc' = "idle"
    /\ prog' = << >>
    /\ st' = IF Consumes(drv, op.name) THEN Dropped ELSE st
    /\ UNCHANGED << drv, busy_when, op, dc, rst, busy, calls, initDone,
                    sleptFrom, lastBus >>
    /\ BufIdle

\* A pin write or a bus write returned Err.
Fail(e) ==
    /\ hwlog' = Append(hwlog, e)
    /\ UNCHANGED gate
    /\ ReturnErr

\* The operation ran to its end and returns Ok.
Return ==
    /\ pc = "run"
    /\ prog = << >>
    /\ result' = "Ok"
    /\ pc' = "idle"
    /\ st' = After(op, st)
    /\ initDone' = (initDone \/ op.name = "init")
    /\ UNCHANGED << drv, busy_when, op, prog, dc, rst, busy, hwlog, gate, calls,
                    sleptFrom, lastBus >>
    /\ BufIdle

\* reset_impl: hw.reset().set_low()? / set_high()?
StepRst ==
    /\ pc = "run"
    /\ prog # << >>
    /\ Head(prog).k = "rst"
    /\ \/ /\ rst' = Head(prog).lvl
          /\ hwlog' = Append(hwlog, Ev("rst", Head(prog).lvl, << >>, TRUE))
          /\ prog' = Tail(prog)
          /\ UNCHANGED << drv, busy_when, st, op, pc, dc, busy, gate, calls,
                          result, initDone, sleptFrom, lastBus >>
          /\ BufIdle
       \/ Fail(Ev("rst", Head(prog).lvl, << >>, FALSE))

\* reset_impl: hw.delay().delay_ms(10).await
StepDelay ==
    /\ pc = "run"
    /\ prog # << >>
    /\ Head(prog).k = "delay"
    /\ hwlog' = Append(hwlog, Ev("delay", "-", << Head(prog).ms >>, TRUE))
    /\ prog' = Tail(prog)
    /\ UNCHANGED << drv, busy_when, st, op, pc, dc, rst, busy, gate, calls,
                    result, initDone, sleptFrom, lastBus >>
    /\ BufIdle

\* send is entered and wait_if_busy reads the busy pin: busy.is_high().unwrap()
BusyRead ==
    /\ pc = "run"
    /\ prog # << >>
    /\ Head(prog).k = "send"
    /\ calls' = Append(calls, [cmd |-> Head(prog).cmd, data |-> Head(prog).data])
    /\ \/ /\ gate' = << GateEv("busy_read", busy, Len(hwlog), TRUE) >>
          /\ pc' = IF is_high(busy) THEN "busy_wait" ELSE "dc_low"
          /\ UNCHANGED << drv, busy_when, st, op, prog, dc, rst, busy, hwlog,
                          result, initDone, sleptFrom, lastBus >>
          /\ BufIdle
       \/ \* the read returned Err: unwrap() panics
          /\ gate' = << GateEv("busy_read", busy, Len(hwlog), FALSE) >>
          /\ result' = "Panic"
          /\ pc' = "idle"
          /\ prog' = << >>
          /\ UNCHANGED << drv, busy_when, st, op, dc, rst, busy, hwlog,
                          initDone, sleptFrom, lastBus >>
          /\ BufIdle

\* wait_if_busy: busy.wait_for_low().await?
BusyWait ==
    /\ pc = "busy_wait"
    /\ \/ /\ wait_for_low_done(busy)
          /\ gate' = Append(gate, GateEv("busy_wait", busy, Len(hwlog), TRUE))
          /\ pc' = "dc_low"
          /\ UNCHANGED << drv, busy_when, st, op, prog, dc, rst, busy, hwlog,
                          calls, result, initDone, sleptFrom, lastBus >>
          /\ BufIdle
       \/ /\ gate' = Append(gate, GateEv("busy_wait", busy, Len(hwlog), FALSE))
          /\ UNCHANGED hwlog
          /\ ReturnErr

\* The mutant of DcLow: send does not drive data/command low before the
\* command byte.
DcLowSkipped ==
    /\ pc = "dc_low"
    /\ pc' = "cmd"
    /\ UNCHANGED << drv, busy_when, st, op, prog, dc, rst, busy, hwlog, gate,
                    calls, result, initDone, sleptFrom, lastBus >>
    /\ BufIdle

\* send: self.dc().set_low()?
DcLow ==
    /\ pc = "dc_low"
    /\ \/ /\ dc' = Low
          /\ hwlog' = Append(hwlog, Ev("dc", Low, << >>, TRUE))
          /\ pc' = "cmd"
          /\ UNCHANGED << drv, busy_when, st, op, prog, rst, busy, gate, calls,
                          result, initDone, sleptFrom, lastBus >>
          /\ BufIdle
       \/ Fail(Ev("dc", Low, << >>, FALSE))

\* The mutant of SpiCmd: command and payload go out batched in one write.
SpiCmdBatched ==
    /\ pc = "cmd"
    /\ hwlog' = Append(hwlog, Ev("spi_cmd", dc,
                               << Head(prog).cmd >> \o Head(prog).data, TRUE))
    /\ lastBus' = << Head(prog).cmd >> \o Head(prog).data
    /\ pc' = "run"
    /\ prog' = Tail(prog)
    /\ UNCHANGED << drv, busy_when, st, op, dc, rst, busy, gate, calls,
                    result, initDone, sleptFrom >>
    /\ BufIdle

\* send: spi.write(&[command]).await?, then the test of data.is_empty()
SpiCmd ==
    /\ pc = "cmd"
    /\ \/ /\ hwlog' = Append(hwlog, Ev("spi_cmd", dc, << Head(prog).cmd >>, TRUE))
          /\ lastBus' = << Head(prog).cmd >>
          /\ IF Head(prog).data = << >>
             THEN pc' = "run" /\ prog' = Tail(prog)
             ELSE pc' = "dc_high" /\ prog' = prog
          /\ UNCHANGED << drv, busy_when, st, op, dc, rst, busy, gate, calls,
                          result, initDone, sleptFrom >>
          /\ BufIdle
       \/ Fail(Ev("spi_cmd", dc, << Head(prog).cmd >>, FALSE))

\* send: self.dc().set_high()?
DcHigh ==
    /\ pc = "dc_high"
    /\ \/ /\ dc' = High
          /\ hwlog' = Append(hwlog, Ev("dc", High, << >>, TRUE))
          /\ pc' = "data"
          /\ UNCHANGED << drv, busy_when, st, op, prog, rst, busy, gate, calls,
                          result, initDone, sleptFrom, lastBus >>
          /\ BufIdle
       \/ Fail(Ev("dc", High, << >>, FALSE))

\* send: spi.write(data).await?
SpiData ==
    /\ pc = "data"
    /\ \/ /\ hwlog' = Append(hwlog, Ev("spi_data", dc, Head(prog).data, TRUE))
          /\ lastBus' = lastBus \o Head(prog).data
          /\ pc' = "run"
          /\ prog' = Tail(prog)
          /\ UNCHANGED << drv, busy_when, st, op, dc, rst, busy, gate, calls,
                          result, initDone, sleptFrom >>
          /\ BufIdle
       \/ Fail(Ev("spi_data", dc, Head(prog).data, FALSE))

\* The panel drives the busy pin on its own.
BusyChange ==
    /\ busy' = Other(busy)
    /\ UNCHANGED << drv, busy_when, st, op, prog, pc, dc, rst, hwlog, gate,
                    calls, result, initDone, sleptFrom, lastBus >>
    /\ BufIdle

InitSession ==
    /\ drv \in Drivers
    /\ st = StateUninitialized
    /\ op = NoOp
    /\ prog = << >>
    /\ pc = "idle"
    /\ dc \in Levels
    /\ rst = High
    /\ busy \in Levels
    /\ hwlog = << >>
    /\ gate = << >>
    /\ calls = << >>
    /\ result = "none"
    /\ initDone = FALSE
    /\ sleptFrom = NoState
    /\ lastBus = << >>

InitNoBuf ==
    /\ bb = << >>
    /\ bbPrev = << >>
    /\ bbPixels = << >>
    /\ bbPhase = "off"
    /\ g2 = << >>
    /\ g2Prev = << >>
    /\ bbArgs = << >>
    /\ bbOut = << >>
    /\ panel = << >>
    /\ history = << >>
    /\ debugBuild = TRUE
    /\ power = Low

Init ==
    /\ InitSession
    /\ busy_when = DEFAULT_BUSY_WHEN
    /\ InitNoBuf

Next ==
    \/ OpInit
    \/ OpSetRefreshMode
    \/ OpSetBorder
    \/ OpSend
    \/ OpSetRamBypass
    \/ OpSetWindow
    \/ OpSetCursor
    \/ OpUpdateDisplay
    \/ OpWriteFramebuffer
    \/ OpWriteBaseFramebuffer
    \/ OpDisplayFramebuffer
    \/ OpReset
    \/ OpSleep
    \/ OpWake
    \/ StepRst
    \/ StepDelay
    \/ BusyRead
    \/ BusyWait
    \/ DcLow
    \/ SpiCmd
    \/ DcHigh
    \/ SpiData
    \/ Return
    \/ BusyChange

Spec == Init /\ [][Next]_vars

\* The same sessions on an adapter of either busy polarity.
InitCfg ==
    /\ InitSession
    /\ busy_when \in Levels
    /\ InitNoBuf

SpecCfg == InitCfg /\ [][Next]_vars

\* ------------------------------------------------------------------------
\* The 7.5" v2 sessions (epd7in5_v2.rs) next to the 2.9" ones.
AllDrivers == Drivers \cup {"Epd7In5v2"}

\* InputPin::is_low on the busy pin (epd7in5_v2.rs:52)
e75_is_low(l) == l = Low

OpPowerOn ==
    Begin(MkOp("power_on", "-", "-", NoRect, Pt(0, 0), NoBuf))

OpPowerOff ==
    Begin(MkOp("power_off", "-", "-", NoRect, Pt(0, 0), NoBuf))

\* power_on_impl / power_off_impl: hw.power().set_high()? / set_low()?
StepPower ==
    /\ pc = "run"
    /\ prog # << >>
    /\ Head(prog).k = "power"
    /\ \/ /\ power' = Head(prog).lvl
          /\ hwlog' = Append(hwlog, Ev("power", Head(prog).lvl, << >>, TRUE))
          /\ prog' = Tail(prog)
          /\ UNCHANGED << drv, busy_when, st, op, pc, dc, rst, busy, gate, calls,
                          result, initDone, sleptFrom, lastBus >>
          /\ UNCHANGED << bufVars, panel, history, debugBuild >>
       \/ Fail(Ev("power", Head(prog).lvl, << >>, FALSE))

\* The buffers and areas handed to display_partial_framebuffer: a 16 x 2
\* buffer; an area inside it, one of size zero, one that touches the right
\* and bottom edges, and one that starts left of the buffer.
E75Views ==
    { [window |-> Rect(0, 0, 16, 2), frames |-> << <<129, 126, 60, 195>> >>] }
E75Areas ==
    { Rect(3, 0, 2, 2), Rect(0, 0, 0, 0), Rect(8, 1, 8, 1), Rect(-8, 0, 16, 1) }

OpDisplayPartialFramebuffer ==
    \E b \in E75Views, a \in E75Areas :
        Begin(MkOp("display_partial_framebuffer", "-", "-", a, Pt(0, 0), b))

\* todo!(), Option::unwrap on None, or a slice index out of range: the task
\* panics.
StepPanic ==
    /\ pc = "run"
    /\ prog # << >>
    /\ Head(prog).k = "panic"
    /\ result' = "Panic"
    /\ pc' = "idle"
    /\ prog' = << >>
    /\ UNCHANGED << drv, busy_when, st, op, dc, rst, busy, hwlog, gate, calls,
                    initDone, sleptFrom, lastBus >>
    /\ BufIdle

\* self.state.data_settings = ...: an assignment, nothing reaches the
\* hardware.
StepDataSettings ==
    /\ pc = "run"
    /\ prog # << >>
    /\ Head(prog).k = "data_settings"
    /\ st' = [st EXCEPT !.data_settings = Head(prog).data[1]]
    /\ prog' = Tail(prog)
    /\ UNCHANGED << drv, busy_when, op, pc, dc, rst, busy, hwlog, gate, calls,
                    result, initDone, sleptFrom, lastBus >>
    /\ BufIdle

\* display_partial_framebuffer: self.hw.dc().set_low()? / set_high()?
StepDc ==
    /\ pc = "run"
    /\ prog # << >>
    /\ Head(prog).k = "dc"
    /\ \/ /\ dc' = Head(prog).lvl
          /\ hwlog' = Append(hwlog, Ev("dc", Head(prog).lvl, << >>, TRUE))
          /\ prog' = Tail(prog)
          /\ UNCHANGED << drv, busy_when, st, op, pc, rst, busy, gate, calls,
                          result, initDone, sleptFrom, lastBus >>
          /\ BufIdle
       \/ Fail(Ev("dc", Head(prog).lvl, << >>, FALSE))

\* display_partial_framebuffer: spi.write(..).await? outside send
StepSpi ==
    /\ pc = "run"
    /\ prog # << >>
    /\ Head(prog).k = "spi"
    /\ \/ /\ hwlog' = Append(hwlog, Ev("spi", dc, Head(prog).data, TRUE))
          /\ lastBus' = IF dc = Low THEN Head(prog).data
                        ELSE lastBus \o Head(prog).data
          /\ prog' = Tail(prog)
          /\ UNCHANGED << drv, busy_when, st, op, pc, dc, rst, busy, gate, calls,
                          result, initDone, sleptFrom >>
          /\ BufIdle
       \/ Fail(Ev("spi", dc, Head(prog).data, FALSE))

\* send of comms.rs / hw.rs, used by the 2.9" sessions.
BusyRead29 ==
    /\ drv \in Drivers
    /\ BusyRead

\* send of epd7in5_v2.rs is entered and its wait_if_busy reads the busy pin:
\* self.busy().is_low()?
E75BusyRead ==
    /\ drv = "Epd7In5v2"
    /\ pc = "run"
    /\ prog # << >>
    /\ Head(prog).k = "send"
    /\ calls' = Append(calls, [cmd |-> Head(prog).cmd, data |-> Head(prog).data])
    /\ \/ /\ gate' = << GateEv("busy_read", busy, Len(hwlog), TRUE) >>
          /\ pc' = IF e75_is_low(busy) THEN "busy_wait" ELSE "dc_low"
          /\ UNCHANGED << drv, busy_when, st, op, prog, dc, rst, busy, hwlog,
                          result, initDone, sleptFrom, lastBus >>
          /\ BufIdle
       \/ \* the read returned Err: `?` returns it, a session taken by value
          \* is dropped
          /\ gate' = << GateEv("busy_read", busy, Len(hwlog), FALSE) >>
          /\ result' = "Err"
          /\ pc' = "idle"
          /\ prog' = << >>
          /\ st' = IF Consumes(drv, op.name) THEN Dropped ELSE st
          /\ UNCHANGED << drv, busy_when, op, dc, rst, busy, hwlog, initDone,
                          sleptFrom, lastBus >>
          /\ BufIdle

\* self.hw.wait_if_busy() called outside send: self.busy().is_low()?
E75WaitRead ==
    /\ drv = "Epd7In5v2"
    /\ pc = "run"
    /\ prog # << >>
    /\ Head(prog).k = "wait"
    /\ \/ /\ gate' = Append(gate, GateEv("busy_read", busy, Len(hwlog), TRUE))
          /\ IF e75_is_low(busy)
             THEN pc' = "wait_wait" /\ prog' = prog
             ELSE pc' = "run" /\ prog' = Tail(prog)
          /\ UNCHANGED << drv, busy_when, st, op, dc, rst, busy, hwlog, calls,
                          result, initDone, sleptFrom, lastBus >>
          /\ BufIdle
       \/ /\ gate' = Append(gate, GateEv("busy_read", busy, Len(hwlog), FALSE))
          /\ UNCHANGED hwlog
          /\ ReturnErr

\* self.hw.wait_if_busy() called outside send: self.busy().wait_for_low().await?
E75WaitWait ==
    /\ pc = "wait_wait"
    /\ \/ /\ wait_for_low_done(busy)
          /\ gate' = Append(gate, GateEv("busy_wait", busy, Len(hwlog), TRUE))
          /\ pc' = "run"
          /\ prog' = Tail(prog)
          /\ UNCHANGED << drv, busy_when, st, op, dc, rst, busy, hwlog,
                          calls, result, initDone, sleptFrom, lastBus >>
          /\ BufIdle
       \/ /\ gate' = Append(gate, GateEv("busy_wait", busy, Len(hwlog), FALSE))
          /\ UNCHANGED hwlog
          /\ ReturnErr

\* Sessions of the three drivers: Epd2In9::new / Epd2In9V2::new give an
\* uninitialised session, Epd7In5v2::new a powered-off one.
InitAll ==
    /\ drv \in AllDrivers
    /\ st = IF drv = "Epd7In5v2" THEN StatePoweredOff ELSE StateUninitialized
    /\ op = NoOp
    /\ prog = << >>
    /\ pc = "idle"
    /\ dc \in Levels
    /\ rst = High
    /\ busy \in Levels
    /\ hwlog = << >>
    /\ gate = << >>
    /\ calls = << >>
    /\ result = "none"
    /\ initDone = FALSE
    /\ sleptFrom = NoState
    /\ lastBus = << >>
    /\ busy_when = DEFAULT_BUSY_WHEN
    /\ InitNoBuf

NextAll ==
    \/ OpPowerOn
    \/ OpPowerOff
    \/ OpInit
    \/ OpSetRefreshMode
    \/ OpSetBorder
    \/ OpSend
    \/ OpSetRamBypass
    \/ OpSetWindow
    \/ OpSetCursor
    \/ OpUpdateDisplay
    \/ OpWriteFramebuffer
    \/ OpWriteBaseFramebuffer
    \/ OpDisplayFramebuffer
    \/ OpDisplayPartialFramebuffer
    \/ OpReset
    \/ OpSleep
    \/ OpWake
    \/ StepPower
    \/ StepPanic
    \/ StepDataSettings
    \/ StepDc
    \/ StepSpi
    \/ StepRst
    \/ StepDelay
    \/ BusyRead29
    \/ E75BusyRead
    \/ E75WaitRead
    \/ E75WaitWait
    \/ BusyWait
    \/ DcLow
    \/ SpiCmd
    \/ DcHigh
    \/ SpiData
    \/ Return
    \/ BusyChange

SpecAll == InitAll /\ [][NextAll]_vars

\* ------------------------------------------------------------------------
\* An Epd2In9 session and the two image RAMs of its panel: the session's
\* operations run step by step on hardware that may fail at every pin and
\* bus call, and the panel takes what the bus carries.
MaxHistory == 5

\* The caller initialises the session once, for partial refreshes, writes
\* one of two images, and has one base image.
PanelModes == { "Partial" }
PanelImages == { <<129, 126>>, <<60, 195>> }
PanelViews == { [window |-> Rect(0, 0, 8, 2), frames |-> << i >>] : i \in PanelImages }
PanelBaseViews == { [window |-> Rect(0, 0, 8, 2), frames |-> << <<60, 195>> >>] }
PanelDisplayViews == { [window |-> Rect(0, 0, 8, 2), frames |-> << <<129, 126>> >>] }

\* A caller that follows at most MaxHistory calls in a row starts operation o.
PanelBegin(o) ==
    /\ Len(history) + Len(Entries(o)) <= MaxHistory
    /\ Begin(o)

PanelInit ==
    /\ st.tag = "Uninitialized"
    /\ \E m \in PanelModes :
          Begin(MkOp("init", m, "-", NoRect, Pt(0, 0), NoBuf))

PanelWriteFramebuffer ==
    \E b \in PanelViews :
        PanelBegin(MkOp("write_framebuffer", "-", "-", NoRect, Pt(0, 0), b))

PanelWriteBaseFramebuffer ==
    \E b \in PanelBaseViews :
        PanelBegin(MkOp("write_base_framebuffer", "-", "-", NoRect, Pt(0, 0), b))

PanelUpdateDisplay ==
    PanelBegin(MkOp("update_display", "-", "-", NoRect, Pt(0, 0), NoBuf))

PanelDisplayFramebuffer ==
    \E b \in PanelDisplayViews :
        PanelBegin(MkOp("display_framebuffer", "-", "-", NoRect, Pt(0, 0), b))

InitPanel ==
    /\ drv = "Epd2In9"
    /\ busy_when = DEFAULT_BUSY_WHEN
    /\ st = StateUninitialized
    /\ op = NoOp
    /\ prog = << >>
    /\ pc = "idle"
    /\ dc = High
    /\ rst = High
    /\ busy = Low
    /\ hwlog = << >>
    /\ gate = << >>
    /\ calls = << >>
    /\ result = "none"
    /\ initDone = FALSE
    /\ sleptFrom = NoState
    /\ lastBus = << >>
    /\ bb = << >>
    /\ bbPrev = << >>
    /\ bbPixels = << >>
    /\ bbPhase = "off"
    /\ g2 = << >>
    /\ g2Prev = << >>
    /\ bbArgs = << >>
    /\ bbOut = << >>
    /\ panel = [cur |-> <<0, 0>>, old |-> <<255, 255>>, shown |-> << >>, base |-> << >>]
    /\ history = << >>
    /\ debugBuild = TRUE
    /\ power = Low

NextPanel ==
    \/ PanelInit
    \/ PanelWriteFramebuffer
    \/ PanelWriteBaseFramebuffer
    \/ PanelUpdateDisplay
    \/ PanelDisplayFramebuffer
    \/ StepRst
    \/ StepDelay
    \/ BusyRead
    \/ BusyWait
    \/ DcLow
    \/ SpiCmd
    \/ DcHigh
    \/ SpiData
    \/ Return
    \/ BusyChange

SpecPanel == InitPanel /\ [][NextPanel]_vars
\* ------------------------------------------------------------------------
\* set_window and set_cursor of the 2.9" sessions on windows and positions
\* that are and are not byte-aligned, in a build with and without debug
\* assertions, on hardware that may fail at every pin and bus call.
AlignShapes ==
    { Rect(x, 0, w, 2) : x \in {-8, 0, 3, 8}, w \in {5, 8, 13} }
AlignPositions ==
    { Pt(x, y) : x \in {-8, -3, 0, 5, 8}, y \in {0, 295} }

AlignSetWindow ==
    \E s \in AlignShapes :
        Begin(MkOp("set_window", "-", "-", s, Pt(0, 0), NoBuf))

AlignSetCursor ==
    \E p \in AlignPositions :
        Begin(MkOp("set_cursor", "-", "-", NoRect, p, NoBuf))

InitAlign ==
    /\ drv \in Drivers
    /\ busy_when = DEFAULT_BUSY_WHEN
    /\ st = StateUninitialized
    /\ op = NoOp
    /\ prog = << >>
    /\ pc = "idle"
    /\ dc = High
    /\ rst = High
    /\ busy = Low
    /\ hwlog = << >>
    /\ gate = << >>
    /\ calls = << >>
    /\ result = "none"
    /\ initDone = FALSE
    /\ sleptFrom = NoState
    /\ lastBus = << >>
    /\ bb = << >>
    /\ bbPrev = << >>
    /\ bbPixels = << >>
    /\ bbPhase = "off"
    /\ g2 = << >>
    /\ g2Prev = << >>
    /\ bbArgs = << >>
    /\ bbOut = << >>
    /\ panel = << >>
    /\ history = << >>
    /\ debugBuild \in BOOLEAN
    /\ power = Low

NextAlign ==
    \/ OpInit
    \/ AlignSetWindow
    \/ AlignSetCursor
    \/ StepPanic
    \/ StepRst
    \/ StepDelay
    \/ BusyRead
    \/ BusyWait
    \/ DcLow
    \/ SpiCmd
    \/ DcHigh
    \/ SpiData
    \/ Return
    \/ BusyChange

SpecAlign == InitAlign /\ [][NextAlign]_vars

\* ------------------------------------------------------------------------
\* Sessions of the 2.9" panel run by an executor that keeps polling the
\* operation's future.  Every pin and bus call may fail; none has to.
\* No pin or bus call returns Err in the step.
NoFault == result' \notin {"Err", "Panic"}

\* One step of the running operation.
LiveStep ==
    \/ StepRst
    \/ StepDelay
    \/ BusyRead
    \/ BusyWait
    \/ DcLow
    \/ SpiCmd
    \/ DcHigh
    \/ SpiData
    \/ Return

\* A step in which the hardware does what it is asked.
LiveProgress == LiveStep /\ NoFault

LiveOp ==
    \/ OpInit
    \/ OpSetBorder
    \/ OpSetCursor
    \/ OpUpdateDisplay
    \/ OpSleep
    \/ OpWake

InitLive ==
    /\ InitSession
    /\ drv = "Epd2In9"
    /\ busy_when = DEFAULT_BUSY_WHEN
    /\ InitNoBuf

NextLive ==
    \/ LiveOp
    \/ LiveStep
    \/ BusyChange

\* The executor polls a future that can make progress; nothing makes the
\* caller start an operation, the panel change its busy pin or the hardware
\* fail.
SpecLive == InitLive /\ [][NextLive]_vars /\ WF_vars(LiveProgress)
\* ------------------------------------------------------------------------
\* display_partial_framebuffer of a 7.5" session on the full-size buffer
\* (BINARY_BUFFER_LENGTH bytes, DISPLAY_WIDTH wide), run step by step on
\* hardware that may fail at every pin and bus call, for areas inside the
\* display and one that starts left of it, in a build with and without
\* overflow checks.
\* epd7in5_v2.rs BINARY_BUFFER_LENGTH (237-238)
E75_BINARY_BUFFER_LENGTH ==
    binary_buffer_length([width |-> E75_DISPLAY_WIDTH, height |-> E75_DISPLAY_HEIGHT])

\* A buffer of the whole display; the bytes tell where in the buffer they lie.
PartView ==
    [window |-> Rect(0, 0, E75_DISPLAY_WIDTH, E75_DISPLAY_HEIGHT),
     frames |-> << [i \in 1 .. E75_BINARY_BUFFER_LENGTH |-> (i - 1) % 251] >>]

\* The areas: of size zero, in the top-left corner, unaligned, on the right
\* edge, on the bottom edge, in the bottom-right corner, the full screen,
\* and one that starts left of the display.
PartAreas ==
    { Rect(0, 0, 0, 0), Rect(0, 0, 8, 1), Rect(3, 1, 13, 2), Rect(792, 0, 8, 2),
      Rect(0, 479, 8, 1), Rect(792, 479, 8, 1),
      Rect(0, 0, E75_DISPLAY_WIDTH, E75_DISPLAY_HEIGHT), Rect(-8, 0, 16, 1) }

\* The caller powers the session on, initialises it for partial refreshes
\* and displays one area.
PartInit ==
    /\ st.tag = "Uninitialized"
    /\ Begin(MkOp("init", "Partial", "-", NoRect, Pt(0, 0), NoBuf))

PartDisplayPartial ==
    /\ op.name = "init"
    /\ \E a \in PartAreas :
          Begin(MkOp("display_partial_framebuffer", "-", "-", a, Pt(0, 0), PartView))

\* Epd7In5v2::new gives a powered-off session.
InitPart ==
    /\ drv = "Epd7In5v2"
    /\ busy_when = DEFAULT_BUSY_WHEN
    /\ st = StatePoweredOff
    /\ op = NoOp
    /\ prog = << >>
    /\ pc = "idle"
    /\ dc = High
    /\ rst = High
    /\ busy = High
    /\ hwlog = << >>
    /\ gate = << >>
    /\ calls = << >>
    /\ result = "none"
    /\ initDone = FALSE
    /\ sleptFrom = NoState
    /\ lastBus = << >>
    /\ bb = << >>
    /\ bbPrev = << >>
    /\ bbPixels = << >>
    /\ bbPhase = "off"
    /\ g2 = << >>
    /\ g2Prev = << >>
    /\ bbArgs = << >>
    /\ bbOut = << >>
    /\ panel = << >>
    /\ history = << >>
    /\ debugBuild \in BOOLEAN
    /\ power = Low

NextPart ==
    \/ OpPowerOn
    \/ PartInit
    \/ PartDisplayPartial
    \/ StepPower
    \/ StepPanic
    \/ StepDataSettings
    \/ StepDc
    \/ StepSpi
    \/ StepRst
    \/ StepDelay
    \/ E75BusyRead
    \/ E75WaitRead
    \/ E75WaitWait
    \/ BusyWait
    \/ DcLow
    \/ SpiCmd
    \/ DcHigh
    \/ SpiData
    \/ Return
    \/ BusyChange

SpecPart == InitPart /\ [][NextPart]_vars

\* ------------------------------------------------------------------------
\* init and set_refresh_mode of the 2.9" sessions, run step by step on
\* hardware that may fail at every pin and bus call; and what the bus has
\* carried to the panel: the bypass setting in effect and the refresh mode
\* whose parameters were last sent completely.
InitMode ==
    /\ drv \in Drivers
    /\ busy_when = DEFAULT_BUSY_WHEN
    /\ st = StateUninitialized
    /\ op = NoOp
    /\ prog = << >>
    /\ pc = "idle"
    /\ dc = High
    /\ rst = High
    /\ busy = Low
    /\ hwlog = << >>
    /\ gate = << >>
    /\ calls = << >>
    /\ result = "none"
    /\ initDone = FALSE
    /\ sleptFrom = NoState
    /\ lastBus = << >>
    /\ bb = << >>
    /\ bbPrev = << >>
    /\ bbPixels = << >>
    /\ bbPhase = "off"
    /\ g2 = << >>
    /\ g2Prev = << >>
    /\ bbArgs = << >>
    /\ bbOut = << >>
    /\ panel = [cfg |-> << >>, bypass |-> 0, done |-> "-"]
    /\ history = << >>
    /\ debugBuild = TRUE
    /\ power = Low

NextMode ==
    \/ OpInit
    \/ OpSetRefreshMode
    \/ StepRst
    \/ StepDelay
    \/ BusyRead
    \/ BusyWait
    \/ DcLow
    \/ SpiCmd
    \/ DcHigh
    \/ SpiData
    \/ Return
    \/ BusyChange

SpecMode == InitMode /\ [][NextMode]_vars

\* ------------------------------------------------------------------------
\* set_window and set_cursor on byte-aligned windows and positions inside
\* the 128 x 296 panel.
\* << x, width >> and << y, height >> of the windows: at the left and right
\* edges, the whole width, at the top and bottom, across row 255 and the
\* whole height.
WinColumns == { <<0, 8>>, <<8, 16>>, <<120, 8>>, <<0, DISPLAY_WIDTH>> }
WinRows == { <<0, 1>>, <<255, 41>>, <<256, 1>>, <<295, 1>>, <<0, DISPLAY_HEIGHT>> }
WinShapes ==
    { Rect(c[1], r[1], c[2], r[2]) : c \in WinColumns, r \in WinRows }
WinPositions ==
    { Pt(x, y) : x \in {0, 120}, y \in {0, 255, 256, 295} }

WinSetWindow ==
    \E s \in WinShapes :
        Begin(MkOp("set_window", "-", "-", s, Pt(0, 0), NoBuf))

WinSetCursor ==
    \E p \in WinPositions :
        Begin(MkOp("set_cursor", "-", "-", NoRect, p, NoBuf))

\* The build has debug assertions; aligned windows pass them.
InitWin == InitAlign /\ debugBuild = TRUE

NextWin ==
    \/ OpInit
    \/ WinSetWindow
    \/ WinSetCursor
    \/ StepRst
    \/ StepDelay
    \/ BusyRead
    \/ BusyWait
    \/ DcLow
    \/ SpiCmd
    \/ DcHigh
    \/ SpiData
    \/ Return
    \/ BusyChange

SpecWin == InitWin /\ [][NextWin]_vars

\* ------------------------------------------------------------------------
\* Calls on the buffers. Each starts from a buffer that earlier drawing left
\* in one of the start contents.

NoArgs == << >>

\* DrawTarget::draw_iter called on the BinaryBuffer with a sequence of pixels.
DrawIter ==
    /\ bbPhase = "ready"
    /\ \E pixels \in PixelSeqs :
          /\ bbPixels' = pixels
          /\ bbPrev' = bb.data
          /\ bb' = draw_iter(bb, pixels)
    /\ bbPhase' = "drawn"
    /\ UNCHANGED << g2, g2Prev, bbArgs, bbOut >>
    /\ UNCHANGED << drvVars, panelVars >>

\* DrawTarget::fill_solid called on the BinaryBuffer.
FillSolid ==
    /\ bbPhase = "ready"
    /\ \E area \in Areas, color \in Colors :
          /\ bbArgs' = [color |-> color, area |-> area]
          /\ bb' = fill_solid(bb, area, color)
    /\ bbPrev' = bb.data
    /\ bbPhase' = "filled"
    /\ UNCHANGED << bbPixels, g2, g2Prev, bbOut >>
    /\ UNCHANGED << drvVars, panelVars >>

\* DrawTarget::fill_contiguous called on the BinaryBuffer with an iterator the
\* caller keeps (colors.by_ref()), so that what was taken from it shows.
FillContiguous ==
    /\ bbPhase = "ready"
    /\ \E area \in Areas :
          \E colors \in ColorSeqsFor(area) :
             LET r == fill_contiguous(bb, area, colors)
             IN  /\ bbArgs' = [area |-> area, colors |-> colors]
                 /\ bb' = r.b
                 /\ bbOut' = [consumed |-> r.consumed]
    /\ bbPrev' = bb.data
    /\ bbPhase' = "contiguous"
    /\ UNCHANGED << bbPixels, g2, g2Prev >>
    /\ UNCHANGED << drvVars, panelVars >>

\* DrawTarget::draw_iter called on the Gray2SplitBuffer.
Gray2DrawIter ==
    /\ bbPhase = "ready"
    /\ \E pixels \in GraySeqs :
          /\ bbArgs' = [pixels |-> pixels]
          /\ g2' = gray2_draw_iter(g2, pixels)
    /\ g2Prev' = [low |-> g2.low.data, high |-> g2.high.data]
    /\ bbPhase' = "gray_drawn"
    /\ UNCHANGED << bb, bbPrev, bbPixels, bbOut >>
    /\ UNCHANGED << drvVars, panelVars >>

\* DrawTarget::fill_solid called on the Gray2SplitBuffer.
Gray2FillSolid ==
    /\ bbPhase = "ready"
    /\ \E area \in Areas, color \in Lumas :
          /\ bbArgs' = [color |-> color, area |-> area]
          /\ g2' = gray2_fill_solid(g2, area, color)
    /\ g2Prev' = [low |-> g2.low.data, high |-> g2.high.data]
    /\ bbPhase' = "gray_filled"
    /\ UNCHANGED << bb, bbPrev, bbPixels, bbOut >>
    /\ UNCHANGED << drvVars, panelVars >>

\* RotatedBuffer::new(buffer, rotation) over the BinaryBuffer, then draw_iter
\* on it and take_inner.
RotatedDrawIter ==
    /\ bbPhase = "ready"
    /\ \E rotation \in Rotations, pixels \in RotPixelSeqs :
          LET rb == RotatedBuffer_new(bb, rotation)
          IN  /\ bbArgs' = [pixels |-> pixels, rotation |-> rotation]
              /\ bbOut' = [bounds |-> rb.bounds]
              /\ bb' = rotated_draw_iter(rb, pixels).buffer
    /\ bbPrev' = bb.data
    /\ bbPhase' = "rotated"
    /\ UNCHANGED << bbPixels, g2, g2Prev >>
    /\ UNCHANGED << drvVars, panelVars >>

\* Rotate::rotate_point, then the inverse rotation's rotate_point in the
\* rotated space.
RotatePoint ==
    /\ bbPhase = "ready"
    /\ \E r \in Rotations, size \in RotSizes :
          \E p \in RotPoints(size) :
             LET q == rotate_point(r, p, size)
             IN  /\ bbArgs' = [point |-> p, rotation |-> r, bounds |-> size]
                 /\ bbOut' = [size |-> rotate_size(r, size),
                              inverse |-> inverse(r),
                              point |-> q,
                              inverse_twice |-> inverse(inverse(r)),
                              back |-> rotate_point(inverse(r), q,
                                                    rotate_size(r, size))]
    /\ bbPhase' = "rotated_point"
    /\ UNCHANGED << bb, bbPrev, bbPixels, g2, g2Prev >>
    /\ UNCHANGED << drvVars, panelVars >>

\* Rotate::rotate_rectangle
RotateRectangle ==
    /\ bbPhase = "ready"
    /\ \E r \in Rotations, size \in RotRectSizes :
          \E rectangle \in RotRects(size) :
             /\ bbArgs' = [rectangle |-> rectangle, rotation |-> r,
                           bounds |-> size]
             /\ bbOut' = [rectangle |-> rotate_rectangle(r, rectangle, size)]
    /\ bbPhase' = "rotated_rectangle"
    /\ UNCHANGED << bb, bbPrev, bbPixels, g2, g2Prev >>
    /\ UNCHANGED << drvVars, panelVars >>

\* RotatedBuffer::new(buffer, rotation) over the BinaryBuffer, then
\* fill_solid on it and take_inner.
RotatedFillSolid ==
    /\ bbPhase = "ready"
    /\ \E rotation \in Rotations, area \in RotAreas, color \in Colors :
          LET rb == RotatedBuffer_new(bb, rotation)
          IN  /\ bbArgs' = [color |-> color, area |-> area,
                            rotation |-> rotation]
              /\ bbOut' = [bounds |-> rb.bounds]
              /\ bb' = rotated_fill_solid(rb, area, color).buffer
    /\ bbPrev' = bb.data
    /\ bbPhase' = "rotated_filled"
    /\ UNCHANGED << bbPixels, g2, g2Prev >>
    /\ UNCHANGED << drvVars, panelVars >>

\* RotatedBuffer::new(buffer, rotation) over the BinaryBuffer, then
\* fill_contiguous on it and take_inner.
RotatedFillContiguous ==
    /\ bbPhase = "ready"
    /\ \E rotation \in Rotations, area \in RotAreas :
          \E colors \in RotColorSeqsFor(area) :
             LET rb == RotatedBuffer_new(bb, rotation)
             IN  /\ bbArgs' = [area |-> area, colors |-> colors,
                               rotation |-> rotation]
                 /\ bbOut' = [bounds |-> rb.bounds]
                 /\ bb' = rotated_fill_contiguous(rb, area, colors).buffer
    /\ bbPrev' = bb.data
    /\ bbPhase' = "rotated_contiguous"
    /\ UNCHANGED << bbPixels, g2, g2Prev >>
    /\ UNCHANGED << drvVars, panelVars >>

\* BinaryBuffer::<L>::new(dimensions) or Gray2SplitBuffer::<L>::new(dimensions)
\* in a build with or without debug assertions.
New ==
    /\ bbPhase = "ready"
    /\ \E kind \in {"binary", "gray2"}, dimensions \in NewDimensions,
          L \in NewLengths, debug_assertions \in BOOLEAN :
          /\ bbArgs' = [debug_assertions |-> debug_assertions, dimensions |-> dimensions,
                        L |-> L, kind |-> kind]
          /\ bbOut' =
                IF kind = "binary"
                THEN LET r == BinaryBuffer_new_in(dimensions, L, debug_assertions)
                     IN  IF r.panic THEN [panic |-> TRUE]
                         ELSE [panic |-> FALSE, planes |-> << r.buffer >>]
                ELSE LET r == Gray2SplitBuffer_new_in(dimensions, L, debug_assertions)
                     IN  IF r.panic THEN [panic |-> TRUE]
                         ELSE [panic |-> FALSE, planes |-> << r.low, r.high >>]
    /\ bbPhase' = "new"
    /\ UNCHANGED << bb, bbPrev, bbPixels, g2, g2Prev >>
    /\ UNCHANGED << drvVars, panelVars >>

InitBuf ==
    /\ drv = "Epd2In9"
    /\ busy_when = DEFAULT_BUSY_WHEN
    /\ st = StateUninitialized
    /\ op = NoOp
    /\ prog = << >>
    /\ pc = "off"
    /\ dc = High
    /\ rst = High
    /\ busy = Low
    /\ hwlog = << >>
    /\ gate = << >>
    /\ calls = << >>
    /\ result = "none"
    /\ initDone = FALSE
    /\ sleptFrom = NoState
    /\ lastBus = << >>
    /\ \E d \in StartDatas :
          /\ bb = [BinaryBuffer_new(BufSize) EXCEPT !.data = d]
          /\ g2 = [low |-> [BinaryBuffer_new(BufSize) EXCEPT !.data = d],
                   high |-> [BinaryBuffer_new(BufSize) EXCEPT
                                !.data = HighStart(d)]]
    /\ bbPrev = bb.data
    /\ g2Prev = [low |-> g2.low.data, high |-> g2.high.data]
    /\ bbPixels = << >>
    /\ bbPhase = "ready"
    /\ panel = << >>
    /\ history = << >>
    /\ debugBuild = TRUE
    /\ power = Low
    /\ bbArgs = NoArgs
    /\ bbOut = NoArgs

NextBuf ==
    \/ DrawIter
    \/ FillSolid
    \/ FillContiguous
    \/ Gray2DrawIter
    \/ Gray2FillSolid
    \/ RotatedDrawIter
    \/ RotatePoint
    \/ New
    \/ RotateRectangle
    \/ RotatedFillSolid
    \/ RotatedFillContiguous

SpecBuf == InitBuf /\ [][NextBuf]_vars

\* ------------------------------------------------------------------------
\* Gray2SplitBuffer::draw_iter one turn of its loop at a time (buffer.rs
\* 345-363). bbArgs holds the iterator, bbOut the buffer the call started
\* from, the two chunks and the number of pixels taken so far.

\* let mut low_chunk = Vec::new(); let mut high_chunk = Vec::new();
ChunkBegin ==
    /\ bbPhase = "ready"
    /\ \E pixels \in GraySeqs :
          bbArgs' = [pixels |-> pixels]
    /\ bbOut' = [i |-> 0, s |-> Chunks(g2, << >>, << >>), g0 |-> g2]
    /\ g2Prev' = [low |-> g2.low.data, high |-> g2.high.data]
    /\ bbPhase' = "gray_loop"
    /\ UNCHANGED << bb, bbPrev, bbPixels, g2 >>
    /\ UNCHANGED << drvVars, panelVars >>

\* for p in pixels.into_iter() { ... }: one turn of the loop.
ChunkTurn ==
    /\ bbPhase = "gray_loop"
    /\ bbOut.i < Len(bbArgs.pixels)
    /\ ~(bbOut.s.g.low.fault \/ bbOut.s.g.high.fault)
    /\ bbOut' = [bbOut EXCEPT !.s = gray2_push(bbOut.s, bbArgs.pixels[bbOut.i + 1]),
                              !.i = bbOut.i + 1]
    /\ UNCHANGED << bb, bbPrev, bbPixels, bbPhase, g2, g2Prev, bbArgs >>
    /\ UNCHANGED << drvVars, panelVars >>

\* if !low_chunk.is_empty() { draw both chunks }; Ok(())
ChunkEnd ==
    /\ bbPhase = "gray_loop"
    /\ \/ bbOut.i = Len(bbArgs.pixels)
       \/ bbOut.s.g.low.fault \/ bbOut.s.g.high.fault
    /\ g2' = IF bbOut.s.g.low.fault \/ bbOut.s.g.high.fault THEN bbOut.s.g
             ELSE IF bbOut.s.low_chunk # << >>
             THEN LET low == draw_iter(bbOut.s.g.low, bbOut.s.low_chunk)
                  IN  [low |-> low,
                       high |-> IF low.fault THEN bbOut.s.g.high
                                ELSE draw_iter(bbOut.s.g.high, bbOut.s.high_chunk)]
             ELSE bbOut.s.g
    /\ bbPhase' = "gray_drawn"
    /\ UNCHANGED << bb, bbPrev, bbPixels, g2Prev, bbArgs, bbOut >>
    /\ UNCHANGED << drvVars, panelVars >>

NextChunk ==
    \/ ChunkBegin
    \/ ChunkTurn
    \/ ChunkEnd

SpecChunk == InitBuf /\ [][NextChunk]_vars

\* ------------------------------------------------------------------------
\* Properties.

Last(s) == s[Len(s)]

IsSpi(e) == e.ev \in {"spi_cmd", "spi_data"}

\* The writes that reached the bus, in order.
BusWrites(log) ==
    LET ok == SelectSeq(log, LAMBDA e : IsSpi(e) /\ e.ok)
    IN  [i \in 1 .. Len(ok) |-> ok[i].bytes]

\* The writes a sequence of send calls asks for: the command byte alone, then
\* the payload when there is one.
RECURSIVE WritesOf(_)
WritesOf(cs) ==
    IF cs = << >> THEN << >>
    ELSE << << Head(cs).cmd >> >> \o
         (IF Head(cs).data = << >> THEN << >> ELSE << Head(cs).data >>) \o
         WritesOf(Tail(cs))

InSend == pc \in {"dc_low", "cmd", "dc_high", "data"}

\* How many pin and bus events the running send has logged at each position.
SendEvents ==
    CASE pc = "dc_low" -> 0
      [] pc = "cmd" -> 1
      [] pc = "dc_high" -> 2
      [] pc = "data" -> 3
      [] OTHER -> 0

ResetPulse ==
    << Ev("rst", Low, << >>, TRUE), Ev("delay", "-", <<10>>, TRUE),
       Ev("rst", High, << >>, TRUE), Ev("delay", "-", <<10>>, TRUE) >>

\* C1: set_window, set_cursor, write_framebuffer, write_base_framebuffer,
\* update_display and set_refresh_mode (and display_framebuffer, built from
\* them) run only on a Ready session, and a session is Ready only after an
\* init has returned Ok.
C1_ReadyOpsOnlyAfterInit ==
    /\ op.name \in ReadyOps => initDone
    /\ (op.name \in ReadyOps /\ pc # "idle") => st.tag = "Ready"
    /\ st.tag = "Ready" => initDone

C1_Witness ==
    /\ op.name = "write_framebuffer"
    /\ pc = "data"
    /\ Head(prog).cmd = WriteRam
    /\ initDone

\* C2: sleep() then wake() (or reset()) gives back exactly the awake state
\* sleep() was called in, refresh mode included, and waking does nothing but
\* pulse the reset pin.
C2_SleepWakeRestores ==
    ( /\ pc = "idle"
      /\ result = "Ok"
      /\ op.name \in {"wake", "reset"}
      /\ sleptFrom # NoState )
    => /\ st = sleptFrom
       /\ StateAwake(st)
       /\ hwlog = ResetPulse
       /\ calls = << >>

C2_Witness ==
    /\ pc = "idle"
    /\ result = "Ok"
    /\ op.name = "wake"
    /\ sleptFrom = StateReady("Partial")
    /\ st = StateReady("Partial")

\* C3: while a session is Asleep the deep-sleep transaction (command 0x10
\* with its payload 0x01) is the last thing written to the bus; an operation
\* running on an Asleep session writes nothing to SPI; sleep never runs on an
\* Asleep session.
C3_AsleepNotOperated ==
    /\ st.tag = "Asleep" => lastBus = << DeepSleepMode, 1 >>
    /\ (st.tag = "Asleep" /\ pc # "idle") =>
          /\ op.name \in {"wake", "reset"}
          /\ calls = << >>
          /\ \A i \in 1 .. Len(hwlog) : ~IsSpi(hwlog[i])
    /\ (op.name = "sleep" /\ pc # "idle") => StateAwake(st)

C3_Witness ==
    /\ st.tag = "Asleep"
    /\ op.name = "wake"
    /\ pc = "run"
    /\ Len(hwlog) = 3
    /\ lastBus = << DeepSleepMode, 1 >>

\* C4: every command byte goes out with data/command low and every payload
\* with it high; a finished send leaves the pin high after a payload and low
\* after a bare command.
C4_DcLevels ==
    /\ \A i \in 1 .. Len(hwlog) :
          /\ hwlog[i].ev = "spi_cmd" => hwlog[i].lvl = Low
          /\ hwlog[i].ev = "spi_data" => hwlog[i].lvl = High
    /\ ( /\ calls # << >>
         /\ pc = "run" \/ (pc = "idle" /\ result = "Ok") )
       => dc = (IF Last(calls).data = << >> THEN Low ELSE High)

C4_Witness ==
    /\ pc = "run"
    /\ Len(calls) >= 2
    /\ calls[Len(calls) - 1].data # << >>
    /\ Last(calls).data = << >>
    /\ Last(hwlog).ev = "spi_cmd"
    /\ Last(hwlog).lvl = Low
    /\ dc = Low

\* C5: a send reads the busy pin before it touches data/command or the bus;
\* it goes on at once when the pin is low (not busy), otherwise it waits for
\* the pin to be low; nothing of the send is on the pins or the bus before
\* the pin was seen low.
C5_BusyGate ==
    /\ pc = "busy_wait" =>
          /\ Len(gate) = 1
          /\ gate[1] = GateEv("busy_read", High, Len(hwlog), TRUE)
    /\ InSend =>
          /\ Len(gate) \in {1, 2}
          /\ gate[1].ev = "busy_read" /\ gate[1].ok
          /\ Len(gate) = 1 => gate[1].lvl = Low
          /\ Len(gate) = 2 =>
                /\ gate[1].lvl = High
                /\ gate[2].ev = "busy_wait" /\ gate[2].ok /\ gate[2].lvl = Low
          /\ \A i \in 1 .. Len(gate) : gate[i].at = Len(hwlog) - SendEvents

C5_Witness ==
    /\ pc = "data"
    /\ Len(gate) = 2
    /\ gate[2].lvl = Low

\* C6: for either configured polarity a send passes the busy gate only when
\* the pin is at the level opposite to busy_when, and waits when the pin is
\* at busy_when.
C6_ConfiguredPolarity ==
    /\ InSend => Last(gate).lvl # busy_when
    /\ pc = "busy_wait" => gate[1].lvl = busy_when

\* C7: the bus carries exactly the writes the send calls ask for, in call
\* order: each command byte as a write of its own, then its payload.
C7_BusOrder ==
    /\ IsPrefix(BusWrites(hwlog), WritesOf(calls))
    /\ (pc = "run" \/ (pc = "idle" /\ result = "Ok")) =>
          BusWrites(hwlog) = WritesOf(calls)

C7_Witness ==
    /\ pc = "idle"
    /\ result = "Ok"
    /\ op.name = "display_framebuffer"
    /\ Len(calls) >= 7
    /\ Len(BusWrites(hwlog)) >= 11

\* C8: a failed data/command write or bus write ends the operation at once
\* with Err: the failed event is the last event, it happened once, and the
\* operation is over.
C8_ErrorStops ==
    \A i \in 1 .. Len(hwlog) :
        ~hwlog[i].ok =>
            /\ i = Len(hwlog)
            /\ result = "Err"
            /\ pc = "idle"
            /\ prog = << >>

C8_Witness ==
    /\ pc = "idle"
    /\ result = "Err"
    /\ op.name = "write_framebuffer"
    /\ Len(calls) = 1
    /\ calls[1].data # << >>
    /\ hwlog # << >>
    /\ Last(hwlog).ev = "spi_cmd"
    /\ ~Last(hwlog).ok

\* C9: a failure of the busy input during the busy check ends the operation
\* with Err.
C9_BusyFailureIsErr ==
    (gate # << >> /\ ~Last(gate).ok) => result = "Err"

\* Pixel (x, y) of packed data, MSB first: bit 0x80 >> (x mod 8) of byte
\* y * (width / 8) + x / 8.
PixelBit(data, x, y) ==
    LET byte == data[y * (BufSize.width \div 8) + (x \div 8) + 1]
    IN  (byte \div (2 ^ (7 - (x % 8)))) % 2

ColorBit(c) == IF c = "On" THEN 1 ELSE 0

Max(S) == CHOOSE m \in S : \A n \in S : n <= m

\* C10: after draw_iter every in-bounds pixel holds the color of the last
\* input pixel at that point (On = 1, Off = 0, MSB first), and every pixel no
\* input names is as before; the buffer keeps its length and byte range.
C10_DrawIterPacking ==
    bbPhase = "drawn" =>
        /\ Len(bb.data) = Len(bbPrev)
        /\ \A i \in 1 .. Len(bb.data) : bb.data[i] \in 0 .. 255
        /\ \A p \in InPoints :
              LET hits == { i \in 1 .. Len(bbPixels) :
                              bbPixels[i].x = p.x /\ bbPixels[i].y = p.y }
              IN  PixelBit(bb.data, p.x, p.y) =
                      IF hits = {} THEN PixelBit(bbPrev, p.x, p.y)
                      ELSE ColorBit(bbPixels[Max(hits)].c)

\* The same point drawn On then Off in one call, in the second byte row.
C10_Witness ==
    /\ bbPhase = "drawn"
    /\ Len(bbPixels) = 2
    /\ bbPixels[1] = Pixel(15, 1, "On")
    /\ bbPixels[2] = Pixel(15, 1, "Off")
    /\ PixelBit(bbPrev, 15, 1) = 1
    /\ PixelBit(bb.data, 15, 1) = 0

\* A point inside the bitmap.
InBitmap(p) ==
    /\ 0 <= p.x /\ p.x < BufSize.width
    /\ 0 <= p.y /\ p.y < BufSize.height

AllOutside(pixels) ==
    \A i \in 1 .. Len(pixels) : ~InBitmap(pixels[i])

\* C11: a draw whose pixels all lie outside the bitmap leaves the bytes of a
\* BinaryBuffer, and of both planes of a Gray2SplitBuffer, as they were, and
\* no draw indexes outside the backing array.
C11_OutOfBoundsIgnored ==
    /\ bbPhase = "drawn" =>
          /\ ~bb.fault
          /\ AllOutside(bbPixels) => bb.data = bbPrev
    /\ bbPhase = "gray_drawn" =>
          /\ ~g2.low.fault /\ ~g2.high.fault
          /\ AllOutside(bbArgs.pixels) =>
                /\ g2.low.data = g2Prev.low
                /\ g2.high.data = g2Prev.high

\* Two gray pixels, left of the bitmap and below it, drawn on planes that
\* hold set bits.
C11_Witness ==
    /\ bbPhase = "gray_drawn"
    /\ bbArgs.pixels = << Pixel(-1, 0, 3), Pixel(0, BufSize.height, 1) >>
    /\ g2Prev.low[1] = 255
    /\ g2.low.data = g2Prev.low
    /\ g2.high.data = g2Prev.high

\* A point inside a rectangle.
InRect(p, r) ==
    /\ r.x <= p.x /\ p.x < r.x + r.w
    /\ r.y <= p.y /\ p.y < r.y + r.h

\* C12: fill_solid leaves the buffer as drawing the color at every point of
\* the rectangle would: every pixel of the bitmap inside the rectangle has the
\* color, every other pixel is as before, no index outside the array is
\* touched; a rectangle covering the bitmap leaves all bytes 0xFF for On and
\* 0x00 for Off.
C12_FillSolidAsPixelwise ==
    bbPhase = "filled" =>
        /\ ~bb.fault
        /\ Len(bb.data) = Len(bbPrev)
        /\ \A i \in 1 .. Len(bb.data) : bb.data[i] \in 0 .. 255
        /\ \A p \in InPoints :
              PixelBit(bb.data, p.x, p.y) =
                  IF InRect(p, bbArgs.area) THEN ColorBit(bbArgs.color)
                  ELSE PixelBit(bbPrev, p.x, p.y)
        /\ (\A p \in InPoints : InRect(p, bbArgs.area)) =>
              \A i \in 1 .. Len(bb.data) :
                 bb.data[i] = IF bbArgs.color = "On" THEN 255 ELSE 0

\* A fill of a fresh buffer from x = 3 to five short of the right edge: a
\* leading partial byte, full bytes, and a trailing partial byte in each row.
C12_Witness ==
    /\ bbPhase = "filled"
    /\ bbArgs = [color |-> "On",
                 area |-> Rect(3, 0, BufSize.width - 5, BufSize.height)]
    /\ \A i \in 1 .. Len(bbPrev) : bbPrev[i] = 0
    /\ bb.data[1] = 31
    /\ bb.data[2] = 255
    /\ bb.data[BufWidthBytes] = 252

\* The place of point p in the row-major walk of a rectangle, from 1.
WalkIndex(p, r) == (p.y - r.y) * r.w + (p.x - r.x) + 1

\* C13: fill_contiguous pairs the i-th color with the i-th point of the whole
\* area in row-major order: a pixel of the bitmap inside the area gets the
\* color at its place in the walk when the iterator holds that many, every
\* other pixel is as before, and no index outside the array is touched.
C13_FillContiguousAsZip ==
    bbPhase = "contiguous" =>
        /\ ~bb.fault
        /\ Len(bb.data) = Len(bbPrev)
        /\ \A p \in InPoints :
              PixelBit(bb.data, p.x, p.y) =
                  IF /\ InRect(p, bbArgs.area)
                     /\ WalkIndex(p, bbArgs.area) <= Len(bbArgs.colors)
                  THEN ColorBit(bbArgs.colors[WalkIndex(p, bbArgs.area)])
                  ELSE PixelBit(bbPrev, p.x, p.y)

\* An area that starts left of and above the bitmap and ends below it, with
\* one color for each of its points: the colors of the points outside are
\* discarded and the pixel at (0, 0) gets the color at place 8.
C13_Witness ==
    /\ bbPhase = "contiguous"
    /\ bbArgs.area = Rect(-2, -1, 5, BufSize.height + 2)
    /\ bbArgs.colors = ColorSeq(1, 5 * (BufSize.height + 2))
    /\ \A i \in 1 .. Len(bbPrev) : bbPrev[i] = 255
    /\ PixelBit(bb.data, 0, 0) = 0
    /\ PixelBit(bb.data, 1, 0) = 1
    /\ bbOut.consumed = 5 * (BufSize.height + 2)

\* C14: fill_contiguous takes exactly width(area) * height(area) colors from
\* the iterator, or all of them when it holds fewer, however much of the area
\* lies inside the bitmap.
C14_ConsumesWholeArea ==
    bbPhase = "contiguous" =>
        bbOut.consumed =
            Min2(Len(bbArgs.colors), bbArgs.area.w * bbArgs.area.h)

\* C15: in a build with debug assertions BinaryBuffer::new and
\* Gray2SplitBuffer::new panic when the width is not a multiple of 8 or when
\* (width / 8) * height is not the backing length L, and otherwise return
\* planes of L zero bytes; in a build without them the construction never
\* panics and returns planes of L zero bytes with the given dimensions.
C15_NewAssertsInDebugOnly ==
    bbPhase = "new" =>
        LET a == bbArgs
            bad == \/ a.dimensions.width % 8 # 0
                   \/ (a.dimensions.width \div 8) * a.dimensions.height # a.L
        IN  /\ bbOut.panic = (a.debug_assertions /\ bad)
            /\ ~bbOut.panic =>
                  /\ Len(bbOut.planes) = (IF a.kind = "binary" THEN 1 ELSE 2)
                  /\ \A k \in 1 .. Len(bbOut.planes) :
                        /\ bbOut.planes[k].size = a.dimensions
                        /\ Len(bbOut.planes[k].data) = a.L
                        /\ \A i \in 1 .. a.L : bbOut.planes[k].data[i] = 0

\* BinaryBuffer::<16>::new(Size::new(16, 10)) with debug assertions panics,
\* as test_binary_buffer_size_must_match_dimensions expects.
C15_Witness ==
    /\ bbPhase = "new"
    /\ bbArgs.kind = "binary"
    /\ bbArgs.dimensions = Size(16, 10)
    /\ bbArgs.L = 16
    /\ bbArgs.debug_assertions
    /\ bbOut.panic

\* Bit k of a 2-bit value.
LumaBit(v, k) == (v \div (2 ^ k)) % 2

\* The places of the input pixels at point p.
HitsAt(pixels, p) ==
    { i \in 1 .. Len(pixels) : pixels[i].x = p.x /\ pixels[i].y = p.y }

\* C16: after a Gray2SplitBuffer draw_iter an in-bounds point that was drawn
\* holds bit 0 of its value in the low plane and bit 1 in the high plane
\* (0b10: low clear, high set; 0b01: low set, high clear; 0b11 both set; 0b00
\* both clear); after fill_solid each plane is what its own fill_solid with
\* its bit of the color as On/Off gives, so every pixel of the rectangle holds
\* the two bits.
C16_PlanesHoldTheTwoBits ==
    /\ bbPhase = "gray_drawn" =>
          \A p \in InPoints :
             LET hits == HitsAt(bbArgs.pixels, p)
             IN  hits # {} =>
                   LET v == bbArgs.pixels[Max(hits)].c
                   IN  /\ PixelBit(g2.low.data, p.x, p.y) = LumaBit(v, 0)
                       /\ PixelBit(g2.high.data, p.x, p.y) = LumaBit(v, 1)
    /\ bbPhase = "gray_filled" =>
          LET v == bbArgs.color
              low == IF LumaBit(v, 0) = 1 THEN "On" ELSE "Off"
              high == IF LumaBit(v, 1) = 1 THEN "On" ELSE "Off"
          IN  /\ g2.low.data =
                    fill_solid([g2.low EXCEPT !.data = g2Prev.low],
                               bbArgs.area, low).data
              /\ g2.high.data =
                    fill_solid([g2.high EXCEPT !.data = g2Prev.high],
                               bbArgs.area, high).data
              /\ \A p \in InPoints :
                    InRect(p, bbArgs.area) =>
                       /\ PixelBit(g2.low.data, p.x, p.y) = LumaBit(v, 0)
                       /\ PixelBit(g2.high.data, p.x, p.y) = LumaBit(v, 1)

\* The value 0b10 drawn at (0, 0) where the low plane held a set bit and the
\* high plane a clear one: low is cleared, high is set.
C16_Witness ==
    /\ bbPhase = "gray_drawn"
    /\ bbArgs.pixels = << Pixel(0, 0, 2) >>
    /\ PixelBit(g2Prev.low, 0, 0) = 1
    /\ PixelBit(g2Prev.high, 0, 0) = 0
    /\ PixelBit(g2.low.data, 0, 0) = 0
    /\ PixelBit(g2.high.data, 0, 0) = 1

\* The planes after drawing the pixels one call at a time, in input order.
RECURSIVE OneAtATime(_, _)
OneAtATime(g, pixels) ==
    IF pixels = << >> THEN g
    ELSE IF Len(pixels) = 1 THEN gray2_draw_iter(g, pixels)
    ELSE LET half == Len(pixels) \div 2
             g1 == OneAtATime(g, SubSeq(pixels, 1, half))
         IN  IF g1.low.fault \/ g1.high.fault THEN g1
             ELSE OneAtATime(g1, SubSeq(pixels, half + 1, Len(pixels)))

\* The Gray2SplitBuffer the last gray draw started from.
G2Before ==
    [low |-> [g2.low EXCEPT !.data = g2Prev.low, !.fault = FALSE],
     high |-> [g2.high EXCEPT !.data = g2Prev.high, !.fault = FALSE]]

\* C17: Gray2SplitBuffer::draw_iter leaves both planes as drawing the input
\* pixels one at a time in input order does, whatever the length of the input
\* (below, at, and beyond one and two chunks of 128) and with points that
\* occur several times; the two planes hold the bits of the same input pixel
\* at every point, the last one at that point, and points no input names are
\* unchanged in both.
C17_ChunkedDrawAsOneAtATime ==
    bbPhase = "gray_drawn" =>
        /\ g2 = OneAtATime(G2Before, bbArgs.pixels)
        /\ \A p \in InPoints :
              LET hits == HitsAt(bbArgs.pixels, p)
              IN  IF hits = {}
                  THEN /\ PixelBit(g2.low.data, p.x, p.y) =
                             PixelBit(g2Prev.low, p.x, p.y)
                       /\ PixelBit(g2.high.data, p.x, p.y) =
                             PixelBit(g2Prev.high, p.x, p.y)
                  ELSE LET v == bbArgs.pixels[Max(hits)].c
                       IN  2 * PixelBit(g2.high.data, p.x, p.y)
                             + PixelBit(g2.low.data, p.x, p.y) = v

\* An input of two full chunks and one pixel more, in which a point drawn in
\* the first chunk is drawn again with another value in the last one.
C17_Witness ==
    /\ bbPhase = "gray_drawn"
    /\ Len(bbArgs.pixels) = 2 * GRAY_ITER_CHUNK_SIZE + 1
    /\ \E p \in InPoints :
          \E i \in HitsAt(bbArgs.pixels, p) :
             /\ i <= GRAY_ITER_CHUNK_SIZE
             /\ 2 * GRAY_ITER_CHUNK_SIZE + 1 \in HitsAt(bbArgs.pixels, p)
             /\ bbArgs.pixels[i].c # bbArgs.pixels[2 * GRAY_ITER_CHUNK_SIZE + 1].c
             /\ 2 * PixelBit(g2.high.data, p.x, p.y)
                  + PixelBit(g2.low.data, p.x, p.y)
                  = bbArgs.pixels[2 * GRAY_ITER_CHUNK_SIZE + 1].c

\* A point inside a space of the given size.
InSize(p, size) ==
    /\ 0 <= p.x /\ p.x < size.width
    /\ 0 <= p.y /\ p.y < size.height

\* C18: rotate_point of p in a space of size (w, h) is (h - p.y - 1, p.x) for
\* 90 degrees, (w - p.x - 1, h - p.y - 1) for 180 and (p.y, w - p.x - 1) for
\* 270; a point inside the space, its corners included, lands inside the
\* space of size rotate_size(w, h), which is (h, w) for 90 and 270 and (w, h)
\* for 180. With the examples: (1, 1) in 10x20 goes to (18, 1), (8, 18) and
\* (1, 8); the centre (2, 2) of 5x5 stays; (1, 2) in 10x20 goes to (17, 1)
\* at 90 degrees.
C18_RotatePointFormulas ==
    bbPhase = "rotated_point" =>
        LET r == bbArgs.rotation
            p == bbArgs.point
            w == bbArgs.bounds.width
            h == bbArgs.bounds.height
            q == bbOut.point
        IN  /\ r = "Degrees90" => q.x = h - p.y - 1 /\ q.y = p.x
            /\ r = "Degrees180" => q.x = w - p.x - 1 /\ q.y = h - p.y - 1
            /\ r = "Degrees270" => q.x = p.y /\ q.y = w - p.x - 1
            /\ bbOut.size = (IF r = "Degrees180" THEN Size(w, h) ELSE Size(h, w))
            /\ InSize(p, bbArgs.bounds) => InSize(q, bbOut.size)
            /\ (p = Pt(1, 1) /\ w = 10 /\ h = 20) =>
                  q = (CASE r = "Degrees90" -> Pt(18, 1)
                         [] r = "Degrees180" -> Pt(8, 18)
                         [] r = "Degrees270" -> Pt(1, 8))
            /\ (p = Pt(2, 2) /\ w = 5 /\ h = 5) => q = Pt(2, 2)
            /\ (p = Pt(1, 2) /\ w = 10 /\ h = 20 /\ r = "Degrees90") =>
                  q = Pt(17, 1)

\* The bottom-right corner of a 10x20 space rotated by 90 degrees: the
\* bottom-left corner (0, 9) of the 20x10 space.
C18_Witness ==
    /\ bbPhase = "rotated_point"
    /\ bbArgs.rotation = "Degrees90"
    /\ bbArgs.bounds = Size(10, 20)
    /\ bbArgs.point = Pt(9, 19)
    /\ bbOut.point = Pt(0, 9)
    /\ bbOut.size = Size(20, 10)

\* C19: rotating a point and then rotating the result by the inverse rotation
\* in the rotated space gives the point back; the inverse of 90 degrees is
\* 270 and of 270 is 90, 180 is its own inverse, and the inverse of the
\* inverse is the rotation.
C19_InverseRoundTrip ==
    bbPhase = "rotated_point" =>
        /\ bbOut.back = bbArgs.point
        /\ bbOut.inverse =
              (CASE bbArgs.rotation = "Degrees90" -> "Degrees270"
                 [] bbArgs.rotation = "Degrees180" -> "Degrees180"
                 [] bbArgs.rotation = "Degrees270" -> "Degrees90")
        /\ bbOut.inverse_twice = bbArgs.rotation

\* (1, 2) of a 10x20 space rotated by 270 degrees to (2, 8) and back by 90.
C19_Witness ==
    /\ bbPhase = "rotated_point"
    /\ bbArgs.rotation = "Degrees270"
    /\ bbArgs.bounds = Size(10, 20)
    /\ bbArgs.point = Pt(1, 2)
    /\ bbOut.point = Pt(2, 8)
    /\ bbOut.inverse = "Degrees90"
    /\ bbOut.back = Pt(1, 2)

\* The size a RotatedBuffer over the bitmap shows for a rotation.
OuterSize(r) ==
    IF r = "Degrees180" THEN Size(BufSize.width, BufSize.height)
    ELSE Size(BufSize.height, BufSize.width)

\* The inner pixel of an outer point, by the formulas of the rotations in the
\* outer space.
InnerOf(r, p) ==
    CASE r = "Degrees90" -> Pt(OuterSize(r).height - p.y - 1, p.x)
      [] r = "Degrees180" -> Pt(OuterSize(r).width - p.x - 1,
                                OuterSize(r).height - p.y - 1)
      [] r = "Degrees270" -> Pt(p.y, OuterSize(r).width - p.x - 1)

OuterPoints(r) ==
    { Pt(x, y) : x \in 0 .. (OuterSize(r).width - 1),
                 y \in 0 .. (OuterSize(r).height - 1) }

\* C20: a RotatedBuffer over an inner buffer of size (w, h) has a bounding
\* box with top-left (0, 0) and size (h, w) for 90 and 270 degrees, (w, h) for
\* 180; a pixel drawn at outer point p changes the inner buffer exactly when
\* p is inside that box, and then at the inner pixel that is the rotation of
\* p in the outer space; the points of the box and the inner pixels
\* correspond one to one, and pixels outside the box are ignored.
C20_RotatedBufferMapsBox ==
    bbPhase = "rotated" =>
        LET r == bbArgs.rotation
            pixels == bbArgs.pixels
        IN  /\ bbOut.bounds =
                  Rect(0, 0, OuterSize(r).width, OuterSize(r).height)
            /\ ~bb.fault
            /\ { InnerOf(r, p) : p \in OuterPoints(r) } = InPoints
            /\ Cardinality(OuterPoints(r)) = Cardinality(InPoints)
            /\ \A q \in InPoints :
                  LET hits == { i \in 1 .. Len(pixels) :
                                  /\ InSize(pixels[i], OuterSize(r))
                                  /\ InnerOf(r, pixels[i]) = q }
                  IN  PixelBit(bb.data, q.x, q.y) =
                          IF hits = {} THEN PixelBit(bbPrev, q.x, q.y)
                          ELSE ColorBit(pixels[Max(hits)].c)

\* A pixel set at the outer origin of a 90-degree view of the cleared
\* bitmap: the last pixel of the inner buffer's first row is set.
C20_Witness ==
    /\ bbPhase = "rotated"
    /\ bbArgs.rotation = "Degrees90"
    /\ bbArgs.pixels = << Pixel(0, 0, "On") >>
    /\ bbOut.bounds = Rect(0, 0, BufSize.height, BufSize.width)
    /\ \A i \in 1 .. Len(bbPrev) : bbPrev[i] = 0
    /\ bb.data[BufSize.width \div 8] = 1
    /\ \A i \in 1 .. Len(bb.data) : i # BufSize.width \div 8 => bb.data[i] = 0

\* The points of a rectangle.
PointsOf(rect) ==
    { Pt(x, y) : x \in rect.x .. (rect.x + rect.w - 1),
                 y \in rect.y .. (rect.y + rect.h - 1) }

\* The image of a point of a space of size (w, h) under a rotation, by the
\* formulas.
ImageOf(r, p, w, h) ==
    CASE r = "Degrees90" -> Pt(h - p.y - 1, p.x)
      [] r = "Degrees180" -> Pt(w - p.x - 1, h - p.y - 1)
      [] r = "Degrees270" -> Pt(p.y, w - p.x - 1)

\* C21: rotate_rectangle of a non-empty rectangle is the rectangle whose
\* points are the images under the rotation of the points of the original:
\* its top-left is the image of the bottom-left corner for 90 degrees, of the
\* bottom-right corner for 180 and of the top-right corner for 270, and width
\* and height are exchanged for 90 and 270. With the values of
\* test_rotate_rectangle.
C21_RotateRectangleIsImage ==
    bbPhase = "rotated_rectangle" =>
        LET r == bbArgs.rotation
            a == bbArgs.rectangle
            w == bbArgs.bounds.width
            h == bbArgs.bounds.height
            out == bbOut.rectangle
            corner ==
                CASE r = "Degrees90" -> Pt(a.x, a.y + a.h - 1)
                  [] r = "Degrees180" -> Pt(a.x + a.w - 1, a.y + a.h - 1)
                  [] r = "Degrees270" -> Pt(a.x + a.w - 1, a.y)
        IN  /\ PointsOf(out) = { ImageOf(r, p, w, h) : p \in PointsOf(a) }
            /\ Pt(out.x, out.y) = ImageOf(r, corner, w, h)
            /\ out.w = (IF r = "Degrees180" THEN a.w ELSE a.h)
            /\ out.h = (IF r = "Degrees180" THEN a.h ELSE a.w)
            /\ (a = Rect(1, 1, 3, 2) /\ w = 4 /\ h = 8 /\ r = "Degrees90") =>
                  out = Rect(5, 1, 2, 3)
            /\ (a = Rect(1, 1, 3, 2) /\ w = 8 /\ h = 4 /\ r = "Degrees180") =>
                  out = Rect(4, 1, 3, 2)
            /\ (a = Rect(1, 1, 3, 2) /\ w = 4 /\ h = 8 /\ r = "Degrees270") =>
                  out = Rect(1, 0, 2, 3)

\* The 3x2 rectangle at (1, 1) of a 4x8 space rotated by 90 degrees: 2x3 at
\* (5, 1).
C21_Witness ==
    /\ bbPhase = "rotated_rectangle"
    /\ bbArgs.rotation = "Degrees90"
    /\ bbArgs.rectangle = Rect(1, 1, 3, 2)
    /\ bbArgs.bounds = Size(4, 8)
    /\ bbOut.rectangle = Rect(5, 1, 2, 3)

\* The BinaryBuffer the last call on it started from.
BBBefore == [bb EXCEPT !.data = bbPrev, !.fault = FALSE]

\* C22: fill_solid through a RotatedBuffer leaves the inner buffer as its own
\* fill_solid of the rotated rectangle (rotated in the outer space) does, and
\* fill_contiguous through it writes the i-th color, counting row by row over
\* the area in outer coordinates, to the inner pixel that is the rotation of
\* the area's i-th point; for areas inside, over the edge of, and outside the
\* outer bounds. Nothing indexes outside the array.
C22_RotatedFillsLandRotated ==
    /\ bbPhase = "rotated_filled" =>
          LET r == bbArgs.rotation
              a == bbArgs.area
              ow == OuterSize(r).width
              oh == OuterSize(r).height
              corner ==
                  CASE r = "Degrees90" -> Pt(a.x, a.y + a.h - 1)
                    [] r = "Degrees180" -> Pt(a.x + a.w - 1, a.y + a.h - 1)
                    [] r = "Degrees270" -> Pt(a.x + a.w - 1, a.y)
              tl == ImageOf(r, corner, ow, oh)
              rotated == Rect(tl.x, tl.y,
                              IF r = "Degrees180" THEN a.w ELSE a.h,
                              IF r = "Degrees180" THEN a.h ELSE a.w)
          IN  /\ ~bb.fault
              /\ bb.data = fill_solid(BBBefore, rotated, bbArgs.color).data
              /\ \A p \in OuterPoints(r) :
                    LET q == InnerOf(r, p)
                    IN  PixelBit(bb.data, q.x, q.y) =
                            IF InRect(p, a) THEN ColorBit(bbArgs.color)
                            ELSE PixelBit(bbPrev, q.x, q.y)
    /\ bbPhase = "rotated_contiguous" =>
          LET r == bbArgs.rotation
              a == bbArgs.area
          IN  /\ ~bb.fault
              /\ \A p \in OuterPoints(r) :
                    LET q == InnerOf(r, p)
                    IN  PixelBit(bb.data, q.x, q.y) =
                            IF /\ InRect(p, a)
                               /\ WalkIndex(p, a) <= Len(bbArgs.colors)
                            THEN ColorBit(bbArgs.colors[WalkIndex(p, a)])
                            ELSE PixelBit(bbPrev, q.x, q.y)

\* An 8x8 area at (-4, -4) filled through a 90-degree view of the cleared
\* bitmap with alternating colors: the outer point (0, 0) is place 37 of the
\* area and sets the last pixel of the inner buffer's first row, (1, 0) is
\* place 38 and leaves the pixel below it clear.
C22_Witness ==
    /\ bbPhase = "rotated_contiguous"
    /\ bbArgs.rotation = "Degrees90"
    /\ bbArgs.area = Rect(-4, -4, 8, 8)
    /\ bbArgs.colors = ColorSeq(1, 64)
    /\ \A i \in 1 .. Len(bbPrev) : bbPrev[i] = 0
    /\ PixelBit(bb.data, BufSize.width - 1, 0) = 1
    /\ PixelBit(bb.data, BufSize.width - 1, 1) = 0

\* ------------------------------------------------------------------------
\* A set_refresh_mode call is running on a Ready session whose mode is the
\* requested one (the session keeps its state until the call returns).
SameModeCall ==
    /\ pc = "run"
    /\ op.name = "set_refresh_mode"
    /\ st.tag = "Ready"
    /\ st.mode = op.mode

\* C23: set_refresh_mode(mode') on a Ready session whose mode already equals
\* mode' is a no-op in each of the three drivers: it has nothing to execute,
\* writes nothing to the bus, drives no pin, does not read or wait on the
\* busy line, and its only step is to return Ok with the session unchanged.
C23_SameModeIsNoOp ==
    [][ SameModeCall =>
          /\ prog = << >>
          /\ hwlog = << >> /\ gate = << >> /\ calls = << >>
          /\ hwlog' = hwlog /\ gate' = gate /\ calls' = calls
          /\ dc' = dc /\ rst' = rst /\ lastBus' = lastBus
          /\ pc' # pc => (pc' = "idle" /\ result' = "Ok" /\ st' = st)
      ]_vars

\* A 7.5" session in Fast mode was asked for Fast again and returned Ok with
\* an empty hardware log.
C23_Witness ==
    /\ drv = "Epd7In5v2"
    /\ pc = "idle"
    /\ op.name = "set_refresh_mode"
    /\ op.mode = "Fast"
    /\ result = "Ok"
    /\ st.tag = "Ready"
    /\ st.mode = "Fast"
    /\ hwlog = << >>
    /\ gate = << >>

\* ------------------------------------------------------------------------
\* The mode-specific part of a driver's bring-up.
ModeSpecific(d, mode) ==
    CASE d = "Epd2In9" -> set_refresh_mode_impl(mode)
      [] d = "Epd2In9V2" -> v2_set_refresh_mode_impl(mode)
      [] OTHER -> ( CASE mode = "Partial" -> init_part
                      [] mode = "Fast" -> init_fast
                      [] OTHER -> init_full )

\* A set_refresh_mode call that had something to do has returned Ok.
ModeChanged ==
    /\ pc = "idle"
    /\ op.name = "set_refresh_mode"
    /\ result = "Ok"
    /\ hwlog # << >>

\* C24: in each of the three drivers a set_refresh_mode to a different mode
\* never writes the reset pin, and when it returns Ok it has sent exactly
\* the parameters of the new mode and the session is Ready in that mode.
C24_ModeChangeWithoutReset ==
    /\ op.name = "set_refresh_mode" =>
          \A i \in 1 .. Len(hwlog) : hwlog[i].ev # "rst"
    /\ ModeChanged =>
          /\ calls = SendsOf(ModeSpecific(drv, op.mode))
          /\ st.tag = "Ready"
          /\ st.mode = op.mode

\* The same statement for the two 2.9" drivers only.
C24_In29 ==
    drv \in Drivers => C24_ModeChangeWithoutReset

\* ------------------------------------------------------------------------
\* The commands of a 2.9" bring-up, in order: the register defaults, then the
\* parameters of the refresh mode.
InitCommands(d, mode) ==
    IF d = "Epd2In9"
    THEN << SwReset, DriverOutputControl, BoosterSoftStartControl,
            DataEntryModeSetting, WriteVcom, SetDummyLinePeriod,
            SetGateLineWidth, WriteLut >> \o
         (IF mode = "Full" THEN << >> ELSE << DisplayUpdateControl1 >>)
    ELSE << SwReset, DriverOutputControl, DataEntryModeSetting,
            DisplayUpdateControl1, SetBorderWaveform, WriteLut, SetLutMagic,
            SetGateDrivingVoltage, SetSourceDrivingVoltage, WriteVcom >> \o
         (IF mode = "Partial"
          THEN << 55, DisplayUpdateControl2, MasterActivation >> ELSE << >>)

\* C25: init(mode) of the 2.9" drivers pulses the reset pin low and then
\* high, with a delay after each edge, before send is entered for the first
\* time; the commands then go out in the bring-up order, register defaults
\* first and the mode's parameters after them, the look-up table being the
\* one of mode; and the call returns a Ready{mode} session exactly when it
\* returns Ok, which takes every step to have succeeded.
C25_InitOrder ==
    op.name = "init" =>
        LET cmds == [i \in 1 .. Len(calls) |-> calls[i].cmd]
        IN  /\ IsPrefix(cmds, InitCommands(drv, op.mode))
            /\ calls # << >> =>
                  /\ Len(hwlog) >= 4
                  /\ SubSeq(hwlog, 1, 4) = ResetPulse
                  /\ gate # << >> => gate[1].at >= 4
            /\ \A i \in 1 .. Len(hwlog) : IsSpi(hwlog[i]) => i > 4
            /\ \A i \in 1 .. Len(calls) :
                  calls[i].cmd = WriteLut =>
                      calls[i].data = IF drv = "Epd2In9" THEN lut(op.mode)
                                      ELSE v2_lut(op.mode)
            /\ (pc = "idle" /\ result = "Ok") =>
                  /\ st = StateReady(op.mode)
                  /\ cmds = InitCommands(drv, op.mode)
                  /\ \A i \in 1 .. Len(hwlog) : hwlog[i].ok
            /\ (pc = "idle" /\ result = "Err") => st = Dropped

\* An Epd2In9 init(PartialBlackBypass) returned Ok: nine commands went out
\* after the reset pulse, the last of them DisplayUpdateControl1.
C25_Witness ==
    /\ drv = "Epd2In9"
    /\ op.name = "init"
    /\ op.mode = "PartialBlackBypass"
    /\ pc = "idle"
    /\ result = "Ok"
    /\ st = StateReady("PartialBlackBypass")
    /\ Len(calls) = 9
    /\ calls[9] = [cmd |-> DisplayUpdateControl1, data |-> <<144>>]
    /\ SubSeq(hwlog, 1, 4) = ResetPulse

\* ------------------------------------------------------------------------
\* What set_window(window) and set_cursor(window.top_left) send on a session
\* of driver d in mode `mode`.
Addressing(d, mode, w) ==
    SendsOf(IF d = "Epd2In9"
            THEN set_window_prog(w) \o set_cursor_prog(Pt(w.x, w.y))
            ELSE v2_set_window_prog(mode, w) \o
                 v2_set_cursor_prog(mode, Pt(w.x, w.y)))

\* All the bytes of a view, frame after frame.
AllBytes(buf) ==
    IF Len(buf.frames) = 1 THEN buf.frames[1]
    ELSE buf.frames[1] \o buf.frames[2]

WritesFrames ==
    op.name \in {"write_framebuffer", "write_base_framebuffer"}

\* The addressing commands come first and in the stated order.
AddressingFirst ==
    /\ \A i \in 1 .. Len(calls) :
          i <= 4 => calls[i].cmd = << SetRamXStartEnd, SetRamYStartEnd,
                                      SetRamX, SetRamY >>[i]
    /\ IsPrefix(SubSeq(calls, 1, IF Len(calls) < 4 THEN Len(calls) ELSE 4),
                Addressing(drv, st.mode, op.buf.window))

\* C26 as stated: write_framebuffer and write_base_framebuffer of the 2.9"
\* drivers send SetRamXStartEnd, SetRamYStartEnd, SetRamX and SetRamY for the
\* view's window and then exactly one RAM write that carries all the bytes of
\* the view, to 0x24 from write_framebuffer and to 0x26 from
\* write_base_framebuffer.
C26_OneRamWrite ==
    WritesFrames =>
        /\ AddressingFirst
        /\ Len(calls) <= 5
        /\ Len(calls) = 5 =>
              calls[5] = [cmd |-> IF op.name = "write_framebuffer" THEN 36 ELSE 38,
                          data |-> AllBytes(op.buf)]
        /\ (pc = "idle" /\ result = "Ok") => Len(calls) = 5

\* C26, amended: the addressing is as stated and the same for both
\* operations; a one-frame view is then written whole by one RAM write, to
\* 0x24 from write_framebuffer and to 0x26 from write_base_framebuffer; a
\* two-frame view, which only Epd2In9V2::write_framebuffer accepts, is written
\* by two RAM writes, its first frame to 0x24 and then its second to 0x26.
C26_RamWritesPerFrame ==
    WritesFrames =>
        LET n == Len(op.buf.frames)
        IN  /\ AddressingFirst
            /\ Len(calls) <= 4 + n
            /\ n = 2 => (drv = "Epd2In9V2" /\ op.name = "write_framebuffer")
            /\ Len(calls) >= 5 =>
                  calls[5] =
                      [cmd |-> IF op.name = "write_framebuffer" THEN 36 ELSE 38,
                       data |-> op.buf.frames[1]]
            /\ Len(calls) = 6 =>
                  calls[6] = [cmd |-> 38, data |-> op.buf.frames[2]]
            /\ (pc = "idle" /\ result = "Ok") => Len(calls) = 4 + n

\* An Epd2In9V2 session wrote a two-frame view and returned Ok after six
\* sends, the last two carrying one frame each.
C26_Witness ==
    /\ drv = "Epd2In9V2"
    /\ op.name = "write_framebuffer"
    /\ Len(op.buf.frames) = 2
    /\ pc = "idle"
    /\ result = "Ok"
    /\ Len(calls) = 6
    /\ calls[5].cmd = 36 /\ calls[5].data = op.buf.frames[1]
    /\ calls[6].cmd = 38 /\ calls[6].data = op.buf.frames[2]

\* ------------------------------------------------------------------------
\* The command that starts a refresh, and the level of the busy pin that
\* means "not busy" (the 7.5" panel's busy pin is active low).
Activation(d) == IF d = "Epd7In5v2" THEN DisplayRefresh ELSE MasterActivation
NotBusy(d, lvl) == IF d = "Epd7In5v2" THEN lvl = High ELSE lvl = Low

UpdateReturned ==
    /\ op.name = "update_display"
    /\ pc = "idle"
    /\ result = "Ok"

\* C27: in each of the three drivers an update_display that returns Ok has
\* sent the update-control setting and then the activation command, and
\* after the activation's command byte went out it has seen the busy pin at
\* its not-busy level.
C27_UpdateWaitsForRefresh ==
    UpdateReturned =>
        /\ Len(calls) >= 2
        /\ calls[1].cmd = DisplayUpdateControl2
        /\ calls[2].cmd = Activation(drv)
        /\ \E i \in 1 .. Len(hwlog) :
              /\ hwlog[i].ev = "spi_cmd"
              /\ hwlog[i].bytes = << Activation(drv) >>
              /\ \E j \in 1 .. Len(gate) :
                    /\ gate[j].ok
                    /\ gate[j].at >= i
                    /\ NotBusy(drv, gate[j].lvl)

\* The same statement for Epd2In9 only, whose update_display ends with the
\* send of a Noop.
C27_In2In9 ==
    drv = "Epd2In9" => C27_UpdateWaitsForRefresh

\* ------------------------------------------------------------------------
\* How many updates the first k entries of the history hold.
RECURSIVE UpdatesIn(_, _)
UpdatesIn(h, k) ==
    IF k = 0 THEN 0
    ELSE UpdatesIn(h, k - 1) + (IF h[k].name = "update" THEN 1 ELSE 0)

\* The history from place k reads: the given names, one after another.
ReadsAt(h, k, names) ==
    /\ k + Len(names) - 1 <= Len(h)
    /\ \A i \in 1 .. Len(names) : h[k + i - 1].name = names[i]

\* C28: on a panel with two image RAMs that swaps them at every activation,
\* between the calls of an Epd2In9 session every update_display that
\* returned Ok has reached the panel as one activation, a repeated one
\* included, and wherever the session did write_framebuffer(A),
\* update_display, write_framebuffer(B), update_display, update_display in
\* a row, each returning Ok, the three updates displayed A, then B, then A
\* again.
C28_TwoRamToggling ==
    pc = "idle" =>
        /\ Len(panel.shown) = UpdatesIn(history, Len(history))
        /\ \A k \in 1 .. Len(history) :
              ReadsAt(history, k, << "write", "update", "write", "update", "update" >>) =>
                  LET u == UpdatesIn(history, k)
                  IN  /\ panel.shown[u + 1] = history[k].image
                      /\ panel.shown[u + 2] = history[k + 2].image
                      /\ panel.shown[u + 3] = history[k].image

\* The session wrote one image, updated, wrote the other, and updated twice:
\* the panel displayed the first image, the second, and the first again.
C28_Witness ==
    /\ pc = "idle"
    /\ result = "Ok"
    /\ Len(history) = 5
    /\ ReadsAt(history, 1, << "write", "update", "write", "update", "update" >>)
    /\ history[1].image = <<129, 126>>
    /\ history[3].image = <<60, 195>>
    /\ panel.shown = << <<129, 126>>, <<60, 195>>, <<129, 126>> >>

\* C29: on the same panel, between the calls of the session, once
\* write_framebuffer(A) and update_display have returned Ok, A is what the
\* panel diffs the next written frame against at the next update when no
\* write_base_framebuffer came in between; an image given to
\* write_base_framebuffer is the base of the update that follows the next
\* write_framebuffer, so a run of write/update pairs needs it at most once,
\* before its first update.
C29_WrittenFrameBecomesBase ==
    pc = "idle" =>
        /\ Len(panel.base) = UpdatesIn(history, Len(history))
        /\ \A k \in 1 .. Len(history) :
              /\ ReadsAt(history, k, << "write", "update", "write", "update" >>) =>
                    panel.base[UpdatesIn(history, k) + 2] = history[k].image
              /\ ReadsAt(history, k, << "write", "update" >>) /\ k + 1 = Len(history) =>
                    panel.old = history[k].image
              /\ ReadsAt(history, k, << "write_base", "write", "update" >>) =>
                    panel.base[UpdatesIn(history, k) + 1] = history[k].image

\* A base image was written once, then two write/update pairs ran: the
\* first update was diffed against the base image, the second against the
\* frame of the first pair.
C29_Witness ==
    /\ pc = "idle"
    /\ result = "Ok"
    /\ Len(history) = 5
    /\ ReadsAt(history, 1, << "write_base", "write", "update", "write", "update" >>)
    /\ history[1].image = <<60, 195>>
    /\ history[2].image = <<129, 126>>
    /\ history[4].image = <<60, 195>>
    /\ panel.base = << <<60, 195>>, <<129, 126>> >>
    /\ st.mode = "Partial"

\* ------------------------------------------------------------------------
\* A set_window or set_cursor call has ended.
AlignEnded(name) ==
    /\ op.name = name
    /\ pc = "idle"
    /\ result # "none"

\* The x coordinates the 2.9" v2 driver works with in Gray2 mode lie one
\* byte column to the right.
Gray2Shift == IF drv = "Epd2In9V2" /\ st.mode = "Gray2" THEN 8 ELSE 0

\* No pin or bus call of the operation has returned Err.
HwOk ==
    /\ \A i \in 1 .. Len(hwlog) : hwlog[i].ok
    /\ \A i \in 1 .. Len(gate) : gate[i].ok

\* C30: the horizontal alignment of set_window and set_cursor is checked by
\* debug assertions only.  With debug assertions on, a window whose left
\* edge or width is not a multiple of 8, and a cursor whose x is not, panic
\* before anything is sent or any pin is touched; with them off the same
\* calls return Ok when no pin or bus call fails, and what they send first
\* is each x coordinate shifted right by 3, the byte column containing the
\* pixel.  Aligned coordinates from 0 upwards are accepted by both builds.
C30_AlignmentOnlyDebugAsserted ==
    /\ AlignEnded("set_window") =>
          LET s == op.shape
              x_start == s.x + Gray2Shift
              x_end == s.x + s.w - 1 + Gray2Shift
              aligned == s.x % 8 = 0 /\ s.w % 8 = 0
          IN  /\ (debugBuild /\ ~aligned) =>
                    (result = "Panic" /\ calls = << >> /\ hwlog = << >> /\ gate = << >>)
              /\ (aligned /\ s.x >= 0 /\ HwOk) => result = "Ok"
              /\ (~debugBuild /\ HwOk) => result = "Ok"
              /\ (~debugBuild /\ calls # << >>) =>
                    calls[1] = [cmd |-> SetRamXStartEnd,
                                data |-> << (x_start \div 8) % 256,
                                            (x_end \div 8) % 256 >>]
              /\ result = "Ok" =>
                    /\ Len(calls) = 2
                    /\ calls[1] = [cmd |-> SetRamXStartEnd,
                                   data |-> << (x_start \div 8) % 256,
                                               (x_end \div 8) % 256 >>]
                    /\ calls[2].cmd = SetRamYStartEnd
    /\ AlignEnded("set_cursor") =>
          LET p == op.pos
              aligned == p.x % 8 = 0
          IN  /\ (debugBuild /\ ~aligned) =>
                    (result = "Panic" /\ calls = << >> /\ hwlog = << >> /\ gate = << >>)
              /\ (aligned /\ HwOk) => result = "Ok"
              /\ (~debugBuild /\ HwOk) => result = "Ok"
              /\ (~debugBuild /\ calls # << >>) =>
                    calls[1] = [cmd |-> SetRamX,
                                data |-> << ((p.x + Gray2Shift) \div 8) % 256 >>]
              /\ result = "Ok" =>
                    /\ Len(calls) = 2
                    /\ calls[1] = [cmd |-> SetRamX,
                                   data |-> << ((p.x + Gray2Shift) \div 8) % 256 >>]
                    /\ calls[2].cmd = SetRamY

\* Without debug assertions an Epd2In9 session was given the window
\* (3, 0) 13x2 and returned Ok, having sent the byte columns 0 and 1.
C30_Witness ==
    /\ ~debugBuild
    /\ drv = "Epd2In9"
    /\ AlignEnded("set_window")
    /\ op.shape = Rect(3, 0, 13, 2)
    /\ result = "Ok"
    /\ calls[1] = [cmd |-> SetRamXStartEnd, data |-> <<0, 1>>]

\* With debug assertions the same window makes the call panic with nothing
\* sent.
C30_WitnessDebug ==
    /\ debugBuild
    /\ AlignEnded("set_window")
    /\ op.shape = Rect(3, 0, 13, 2)
    /\ result = "Panic"
    /\ calls = << >>
    /\ hwlog = << >>

\* ------------------------------------------------------------------------
\* A send has been entered and has not yet returned.
SendRunning == pc \in {"busy_wait", "dc_low", "cmd", "dc_high", "data"}

\* The last send entered has returned with its command and payload on the bus.
SendWritten ==
    /\ pc \in {"run", "idle"}
    /\ calls # << >>
    /\ lastBus = << Last(calls).cmd >> \o Last(calls).data

\* The operation has ended on a pin or bus call that returned Err.
SendFailed == pc = "idle" /\ result \in {"Err", "Panic"}

\* A send passes its busy gate only in a step taken while the pin is low.
GateNeedsLow == (pc' = "dc_low" /\ pc # "dc_low") => busy = Low

\* The send stays in its wait, with nothing returned and nothing written.
StillWaiting ==
    /\ pc' = "busy_wait"
    /\ result' = result
    /\ hwlog' = hwlog
    /\ lastBus' = lastBus

\* The wait on the pin itself returned Err and send hands that error on,
\* having written nothing.
WaitFailed ==
    /\ pc' = "idle"
    /\ result' = "Err"
    /\ gate' # << >>
    /\ Last(gate').ev = "busy_wait"
    /\ ~Last(gate').ok
    /\ hwlog' = hwlog
    /\ lastBus' = lastBus

\* C31 as stated: once the pin has reported not-busy to a send, the send
\* completes with its command and payload written; while a send waits with
\* the pin high it stays waiting, returns nothing, no error either, and
\* writes nothing.
C31_NeverReturnsWhileBusy ==
    /\ (pc = "dc_low") ~> SendWritten
    /\ [][ /\ GateNeedsLow
           /\ (pc = "busy_wait" /\ busy = High) => StillWaiting ]_vars

\* C31: send has no timeout of its own.  Once the pin has reported not-busy
\* to a send, the send completes with its command and payload written
\* unless a pin or bus call fails; a send passes its busy gate only in a
\* step taken while the pin is low; and while it waits with the pin high it
\* stays waiting, returns nothing and writes nothing, unless the wait on
\* the pin itself returns an error, which send hands on with nothing
\* written.
C31_SendHasNoTimeout ==
    /\ (pc = "dc_low") ~> (SendWritten \/ SendFailed)
    /\ [][ /\ GateNeedsLow
           /\ (pc = "busy_wait" /\ busy = High) => (StillWaiting \/ WaitFailed) ]_vars

\* A send that had to wait for the pin has completed with a payload.
C31_Witness ==
    /\ SendWritten
    /\ Last(calls).data # << >>
    /\ \E i \in 1 .. Len(gate) : gate[i].ev = "busy_wait" /\ gate[i].ok

\* A send that was waiting with the pin high has returned the error of the
\* wait, with nothing on the bus.
C31_WitnessWaitFailed ==
    /\ pc = "idle"
    /\ result = "Err"
    /\ busy = High
    /\ gate # << >>
    /\ Last(gate).ev = "busy_wait"
    /\ ~Last(gate).ok
    /\ Last(gate).lvl = High
    /\ hwlog = << >>

\* ------------------------------------------------------------------------
\* The running (or last) operation pulsed reset or wrote to the bus.
DrivesPanel ==
    \E i \in 1 .. Len(hwlog) : hwlog[i].ev \in {"rst", "spi_cmd", "spi_data", "spi"}

\* C32: a 7.5" session starts PoweredOff; the only operation called on a
\* PoweredOff session is power_on, which drives the power line high and
\* returns an Uninitialized session; power_off is called only on an Asleep
\* session, drives the line low and returns a PoweredOff one; and every reset
\* pulse and bus write happens while the power-enable line is high.
C32_PoweredWhenDriven ==
    drv = "Epd7In5v2" =>
        /\ op = NoOp => st = StatePoweredOff
        /\ (st.tag = "PoweredOff" /\ pc # "idle") => op.name = "power_on"
        /\ (op.name = "power_on" /\ result = "Ok") =>
               st = StateUninitialized /\ power = High
        /\ (op.name = "power_off" /\ pc # "idle") => st.tag = "Asleep"
        /\ (op.name = "power_off" /\ result = "Ok") =>
               st = StatePoweredOff /\ power = Low
        /\ (st.tag \in {"Uninitialized", "Ready", "Asleep"} /\ op.name # "power_off")
               => power = High
        /\ DrivesPanel => power = High

\* A session that was powered off after a sleep is powered on again and
\* initialised: its reset pulses and bus writes find the line high.
C32_Witness ==
    /\ drv = "Epd7In5v2"
    /\ op.name = "init"
    /\ result = "Ok"
    /\ DrivesPanel
    /\ power = High
    /\ sleptFrom = NoState
    /\ initDone

\* ------------------------------------------------------------------------
\* C33: in the 7.5" driver wait_if_busy returns Ok only with the busy pin
\* high (not busy): a wait that was entered with the pin low ends with the pin
\* high, and a read that finds the pin high is not followed by a wait.
C33_WaitEndsNotBusy ==
    drv = "Epd7In5v2" =>
        \A i \in 1 .. Len(gate) :
            /\ (gate[i].ev = "busy_wait" /\ gate[i].ok) => gate[i].lvl = High
            /\ (gate[i].ev = "busy_wait" /\ i > 1) => gate[i - 1].lvl = Low
            /\ (gate[i].ev = "busy_read" /\ gate[i].ok /\ gate[i].lvl = High
                /\ i < Len(gate)) => gate[i + 1].ev = "busy_read"

\* What the 7.5" wait_if_busy does keep: it suspends only after reading the
\* pin low, and passes a pin read high without suspending.
C33_SuspendsOnlyWhenLow ==
    drv = "Epd7In5v2" =>
        \A i \in 1 .. Len(gate) :
            /\ (gate[i].ev = "busy_wait" /\ i > 1) => gate[i - 1].lvl = Low
            /\ (gate[i].ev = "busy_read" /\ gate[i].ok /\ gate[i].lvl = High
                /\ i < Len(gate)) => gate[i + 1].ev = "busy_read"

\* ------------------------------------------------------------------------
\* A byte written to the bus with data/command low.
IsCommandByte(e) ==
    e.ok /\ (e.ev = "spi_cmd" \/ (e.ev = "spi" /\ e.lvl = Low))

\* The position in the log of the last bus write before the last event.
PrevBusWrite ==
    LET before == { i \in 1 .. Len(hwlog) - 1 :
                      hwlog[i].ok /\ hwlog[i].ev \in {"spi_cmd", "spi_data", "spi"} }
    IN  IF before = {} THEN 0 ELSE Max(before)

\* The busy pin was read between the previous bus write and the last event.
GatedSincePrevWrite ==
    \E i \in 1 .. Len(gate) :
        /\ gate[i].ev = "busy_read"
        /\ gate[i].ok
        /\ gate[i].at >= PrevBusWrite
        /\ gate[i].at < Len(hwlog)

\* C34: in the 7.5" driver every command byte put on the bus comes after a
\* busy check made since the previous bus write, the DataStartTransmission2
\* command of display_partial_framebuffer included.
C34_EveryCommandGated ==
    [][ (drv = "Epd7In5v2" /\ Len(hwlog') = Len(hwlog) + 1
         /\ IsCommandByte(Last(hwlog')))
            => GatedSincePrevWrite' ]_vars

\* The command bytes the 7.5" driver writes through send are gated.
C34_SendsGated ==
    [][ (drv = "Epd7In5v2" /\ Len(hwlog') = Len(hwlog) + 1
         /\ Last(hwlog').ok /\ Last(hwlog').ev = "spi_cmd")
            => GatedSincePrevWrite' ]_vars

\* ------------------------------------------------------------------------
\* C38: display_partial_framebuffer called on a Ready session whose mode is
\* not Partial returns Err, with nothing sent and the session unchanged.
C38_WrongModeIsErr ==
    ( /\ drv = "Epd7In5v2"
      /\ op.name = "display_partial_framebuffer"
      /\ pc = "idle"
      /\ st.tag = "Ready"
      /\ st.mode # "Partial" )
        => (result = "Err" /\ hwlog = << >> /\ calls = << >>)

\* What the code keeps of it: the call puts nothing on the pins or the bus
\* and leaves the session as it was.
C38_WrongModeSendsNothing ==
    ( /\ drv = "Epd7In5v2"
      /\ op.name = "display_partial_framebuffer"
      /\ st.tag = "Ready"
      /\ st.mode # "Partial" )
        => (hwlog = << >> /\ calls = << >> /\ gate = << >>)

\* ------------------------------------------------------------------------
\* The bytes of a row of the window programmed with SetPartialWindow: from
\* the byte of its start x to the byte of its end x.
WindowRowBytes(payload) ==
    ((payload[3] * 256 + payload[4]) \div 8) - ((payload[1] * 256 + payload[2]) \div 8) + 1

\* The row slices the operation has put on the bus: its writes outside send
\* made with data/command high.
RowWrites == SelectSeq(hwlog, LAMBDA e : e.ev = "spi" /\ e.lvl = High)

\* The payloads of the SetPartialWindow sends of the operation.
WindowsSent ==
    LET s == SelectSeq(calls, LAMBDA c : c.cmd = SetPartialWindow)
    IN  [k \in 1 .. Len(s) |-> s[k].data]

\* Every row slice put on the bus is as long as a row of the window
\* programmed before it.
SlicesFit ==
    \A k \in 1 .. Len(RowWrites) :
        /\ Len(WindowsSent) = 1
        /\ Len(RowWrites[k].bytes) = WindowRowBytes(WindowsSent[1])

\* The area lies inside the 800 x 480 display.
InDisplay(a) ==
    /\ a.x >= 0 /\ a.y >= 0
    /\ a.x + a.w <= E75_DISPLAY_WIDTH /\ a.y + a.h <= E75_DISPLAY_HEIGHT

\* display_partial_framebuffer was called on a session in Partial mode with
\* an area inside the display and a buffer of the whole display, and has
\* ended.
PartialEnded ==
    /\ op.name = "display_partial_framebuffer"
    /\ pc = "idle"
    /\ result # "none"
    /\ st.mode = "Partial"
    /\ InDisplay(op.shape)

\* C37: in Partial mode display_partial_framebuffer completes for every area
\* inside the 800 x 480 display (a zero-size area, areas on the right or
\* bottom edge and the full screen included): it does not panic, it returns
\* Ok when no pin or bus call fails, having read one slice per row of the
\* area, each inside the buffer, and each slice it sends is as long as a row
\* of the window it programmed.
C37_PartialAreaCompletes ==
    PartialEnded =>
        /\ result # "Panic"
        /\ HwOk => result = "Ok"
        /\ result = "Ok" =>
              Len(RowWrites) = (IF op.shape.h = 0 THEN 1 ELSE op.shape.h)
        /\ SlicesFit

\* What holds for the areas the code completes: the slices it sent before
\* any panic are as long as a window row, and it completes for every area
\* of non-zero size that does not reach the last byte of the buffer.
C37_CompletesAwayFromLastByte ==
    PartialEnded =>
        /\ SlicesFit
        /\ (op.shape.w > 0 /\ op.shape.h > 0
            /\ ~(op.shape.y + op.shape.h = E75_DISPLAY_HEIGHT
                 /\ op.shape.x + op.shape.w > E75_DISPLAY_WIDTH - 8))
              => /\ result # "Panic"
                 /\ HwOk => result = "Ok"
                 /\ result = "Ok" => Len(RowWrites) = op.shape.h

\* The full screen was asked for: the call panicked on the slice of the last
\* row, with the 479 rows before it on the bus.
C37_WitnessFullScreen ==
    /\ PartialEnded
    /\ op.shape = Rect(0, 0, E75_DISPLAY_WIDTH, E75_DISPLAY_HEIGHT)
    /\ result = "Panic"
    /\ HwOk
    /\ Len(RowWrites) = E75_DISPLAY_HEIGHT - 1

\* An area of size zero was asked for: the call panicked before it
\* programmed a window.
C37_WitnessZeroSize ==
    /\ PartialEnded
    /\ op.shape = Rect(0, 0, 0, 0)
    /\ result = "Panic"
    /\ WindowsSent = << >>

\* An area on the right edge, away from the last row, was displayed.
C37_WitnessRightEdge ==
    /\ PartialEnded
    /\ op.shape = Rect(792, 0, 8, 2)
    /\ result = "Ok"
    /\ Len(RowWrites) = 2

\* ------------------------------------------------------------------------
\* The bypass setting that belongs to a refresh mode of the 2.9" v1 panel.
BypassOf(mode) ==
    CASE mode = "PartialBlackBypass" -> 144
      [] mode = "PartialWhiteBypass" -> 128
      [] OTHER -> 0

\* The session is between two calls, the last of which returned Ok.
AfterOk == pc = "idle" /\ result = "Ok"

\* C35: for the 2.9" v1 driver, after init and any successful
\* set_refresh_mode calls, the bypass setting in effect on the panel is the
\* one of the session's mode: 0x00 for Partial, 0x90 for PartialBlackBypass,
\* 0x80 for PartialWhiteBypass and 0x00 (no bypass) for Full.
C35_BypassFollowsMode ==
    (drv = "Epd2In9" /\ st.tag = "Ready" /\ AfterOk)
        => panel.bypass = BypassOf(st.mode)

\* What the v1 driver keeps: in the three partial modes the bypass in effect
\* is the mode's own.
C35_PartialBypassFollowsMode ==
    (drv = "Epd2In9" /\ st.tag = "Ready" /\ AfterOk /\ st.mode # "Full")
        => panel.bypass = BypassOf(st.mode)

\* A session initialised in PartialBlackBypass was set to Full: the panel
\* still has the bypass 0x90.
C35_WitnessStaleBypass ==
    /\ drv = "Epd2In9"
    /\ st.tag = "Ready"
    /\ AfterOk
    /\ op.name = "set_refresh_mode"
    /\ st.mode = "Full"
    /\ panel.bypass = 144

\* ------------------------------------------------------------------------
\* C39: in the 2.9" v2 driver a set_refresh_mode call that fails part-way
\* leaves the session's recorded mode unchanged, and between the calls,
\* after any successful and failed init and set_refresh_mode calls, the
\* recorded mode is the mode whose parameters were last sent to the panel
\* completely.
C39_RecordedModeIsLastSent ==
    /\ [](( drv = "Epd2In9V2" /\ st.tag = "Ready" /\ pc = "idle")
             => panel.done = st.mode)
    /\ [][ (drv = "Epd2In9V2" /\ op'.name = "set_refresh_mode" /\ result' = "Err")
              => st' = st ]_vars

\* A set_refresh_mode to another mode failed after some of its parameters
\* had reached the panel; the session still records the mode it had.
C39_Witness ==
    /\ drv = "Epd2In9V2"
    /\ op.name = "set_refresh_mode"
    /\ pc = "idle"
    /\ result = "Err"
    /\ Len(calls) > 3
    /\ st.tag = "Ready"
    /\ st.mode # op.mode
    /\ panel.done = st.mode
    /\ panel.cfg # << >>

\* ------------------------------------------------------------------------
\* << low, high >> are the two bytes of v: low + 256 * high = v.
IsLowHigh(low, high, v) ==
    /\ low \in 0 .. 255
    /\ high \in 0 .. 255
    /\ low + 256 * high = v

\* The session sends in black and white: the 2.9" v1 panel always, the v2
\* panel outside Gray2 mode.
BlackAndWhite == drv = "Epd2In9" \/ st.mode # "Gray2"

\* C36: for a window inside the 128 x 296 panel whose x and width are
\* multiples of 8, set_window in black-and-white mode sends SetRamXStartEnd
\* [x/8, (x+width)/8 - 1] and SetRamYStartEnd [low(y), high(y),
\* low(y+height-1), high(y+height-1)]; set_cursor sends SetRamX [x/8] and
\* SetRamY [low(y), high(y)]; for the full panel X = [0x00, 0x0F] and
\* Y = [0x00, 0x00, 0x27, 0x01].  The call returns Ok with both sent when
\* no pin or bus call fails, and a call cut short by a failure has sent a
\* prefix of the two.
C36_WindowAndCursorBytes ==
    /\ (AlignEnded("set_window") /\ BlackAndWhite) =>
          LET s == op.shape
          IN  /\ HwOk => result = "Ok"
              /\ result = "Ok" => Len(calls) = 2
              /\ Len(calls) <= 2
              /\ Len(calls) >= 1 =>
                    /\ calls[1].cmd = SetRamXStartEnd
                    /\ calls[1].data = << s.x \div 8, (s.x + s.w) \div 8 - 1 >>
                    /\ s = Rect(0, 0, DISPLAY_WIDTH, DISPLAY_HEIGHT) =>
                          calls[1].data = << 0, 15 >>
              /\ Len(calls) = 2 =>
                    /\ calls[2].cmd = SetRamYStartEnd
                    /\ Len(calls[2].data) = 4
                    /\ IsLowHigh(calls[2].data[1], calls[2].data[2], s.y)
                    /\ IsLowHigh(calls[2].data[3], calls[2].data[4], s.y + s.h - 1)
                    /\ s = Rect(0, 0, DISPLAY_WIDTH, DISPLAY_HEIGHT) =>
                          calls[2].data = << 0, 0, 39, 1 >>
    /\ (AlignEnded("set_cursor") /\ BlackAndWhite) =>
          LET p == op.pos
          IN  /\ HwOk => result = "Ok"
              /\ result = "Ok" => Len(calls) = 2
              /\ Len(calls) <= 2
              /\ Len(calls) >= 1 =>
                    calls[1] = [cmd |-> SetRamX, data |-> << p.x \div 8 >>]
              /\ Len(calls) = 2 =>
                    /\ calls[2].cmd = SetRamY
                    /\ Len(calls[2].data) = 2
                    /\ IsLowHigh(calls[2].data[1], calls[2].data[2], p.y)

\* The full panel has been set as the window, and a cursor below row 255.
C36_Witness ==
    /\ AlignEnded("set_window")
    /\ result = "Ok"
    /\ BlackAndWhite
    /\ op.shape = Rect(0, 0, DISPLAY_WIDTH, DISPLAY_HEIGHT)
    /\ calls[2].data = << 0, 0, 39, 1 >>

C36_WitnessCursor ==
    /\ AlignEnded("set_cursor")
    /\ result = "Ok"
    /\ BlackAndWhite
    /\ op.pos = Pt(120, 295)
    /\ calls[2].data = << 39, 1 >>

\* ------------------------------------------------------------------------
\* The loop of a chunked Gray2SplitBuffer::draw_iter is running or has ended.
InChunkedDraw == bbPhase \in {"gray_loop", "gray_drawn"} /\ "s" \in DOMAIN bbOut

\* C40: in Gray2SplitBuffer::draw_iter the low and the high chunk always hold
\* the same number of entries, with the same points in the same order, and
\* neither chunk ever holds more than GRAY_ITER_CHUNK_SIZE = 128 entries, for
\* every input length: an entry is pushed only into a chunk that has room.
C40_ChunksInStepWithinCapacity ==
    InChunkedDraw =>
        LET low_chunk == bbOut.s.low_chunk
            high_chunk == bbOut.s.high_chunk
        IN  /\ Len(low_chunk) = Len(high_chunk)
            /\ \A k \in 1 .. Len(low_chunk) :
                  /\ low_chunk[k].x = high_chunk[k].x
                  /\ low_chunk[k].y = high_chunk[k].y
            /\ Len(low_chunk) <= GRAY_ITER_CHUNK_SIZE
            /\ Len(high_chunk) <= GRAY_ITER_CHUNK_SIZE

\* A full chunk has been drawn and the next point pushed into a new one, the
\* second time in this call.
C40_Witness ==
    /\ bbPhase = "gray_loop"
    /\ "s" \in DOMAIN bbOut
    /\ bbOut.i = 2 * GRAY_ITER_CHUNK_SIZE + 1
    /\ Len(bbOut.s.low_chunk) = 1

\* A chunk that holds exactly its capacity.
C40_WitnessFull ==
    /\ bbPhase = "gray_loop"
    /\ "s" \in DOMAIN bbOut
    /\ Len(bbOut.s.low_chunk) = GRAY_ITER_CHUNK_SIZE

\* The chunks hold the last points taken from the iterator, in its order,
\* with the two bits of their colours.
C40_ChunksAreInputTail ==
    InChunkedDraw =>
        LET n == Len(bbOut.s.low_chunk)
        IN  /\ n <= bbOut.i
            /\ \A k \in 1 .. n :
                  LET p == bbArgs.pixels[bbOut.i - n + k]
                      lh == to_low_and_high_as_binary(p.c)
                  IN  /\ bbOut.s.low_chunk[k] = [x |-> p.x, y |-> p.y, c |-> lh.low]
                      /\ bbOut.s.high_chunk[k] = [x |-> p.x, y |-> p.y, c |-> lh.high]

\* The loop taken one turn at a time ends with the buffer that
\* gray2_draw_iter computes.
C40_LoopAsDrawIter ==
    (bbPhase = "gray_drawn" /\ "s" \in DOMAIN bbOut) =>
        g2 = gray2_draw_iter(bbOut.g0, bbArgs.pixels)
====
